---- MODULE Spec2Model ----
(***************************************************************************)
(* A model of pdo-tools (Go): the PDO byte-stream decoder (pkg/pdo/        *)
(* reader.go) and the structural parser (pkg/pdo/parser.go).               *)
(*                                                                         *)
(* Two specifications share the module:                                    *)
(*   Spec     the parser, Parser.Load, as a state machine that issues one  *)
(*            read per step on a stream whose content and faults are       *)
(*            chosen by the environment;                                   *)
(*   SpecStr  Reader.ReadString as a function of the stored bytes, applied *)
(*            to inputs drawn from bounded sets.                           *)
(***************************************************************************)
EXTENDS Integers, Sequences, FiniteSets, TLC

(***************************************************************************)
(* Bounds of the model.                                                    *)
(***************************************************************************)
\* largest material count and header lock count the stream holds
MaxCount == 2
\* longest unit sequence of a hand-built stored string
MaxUnits == 2
\* longest body (bytes after the length prefix) of an arbitrary stored string
MaxBody == 3
\* most faces of an Object the lookups are applied to
MaxFaces == 2
\* longest vertex loop of a face
MaxLoop == 3
\* most Lines of a Part that is rendered
MaxLines == 2
\* most Parts of a Model that is laid out on pages
MaxParts == 2
\* largest width and height of a Texture that is decoded
MaxSide == 2
\* most bytes a texture payload inflates to
MaxInflated == 13
MaxMaterials == 2

(***************************************************************************)
(* Fixed-width integers (encoding/binary, Go conversions).                 *)
(***************************************************************************)
Pow8 == 2 ^ 8
Pow16 == 2 ^ 16
Pow24 == 2 ^ 24

\* byte(x), uint8 arithmetic
ToByte(x) == x % Pow8
\* uint16(x), uint16 arithmetic
ToUint16(x) == x % Pow16
\* uint32(x) of an int32 x, as its two 16-bit halves
ToUint32(x) == [hi |-> (x \div Pow16) % Pow16, lo |-> x % Pow16]
IsZero32(u) == u.hi = 0 /\ u.lo = 0

\* Go's integer division truncates toward zero
GoDiv(a, b) == IF a >= 0 THEN a \div b ELSE -((-a) \div b)

\* little-endian encoding and decoding, binary.LittleEndian; the four bytes
\* of an int32 are those of its two's complement
LE16(u) == <<u % Pow8, (u \div Pow8) % Pow8>>
LE32(v) == <<v % Pow8, (v \div Pow8) % Pow8, (v \div Pow16) % Pow8, (v \div Pow24) % Pow8>>
FromLE16(b, at) == b[at] + Pow8 * b[at + 1]
FromLE32(b, at) ==
    b[at] + Pow8 * b[at + 1] + Pow16 * b[at + 2]
    + Pow24 * (IF b[at + 3] >= 128 THEN b[at + 3] - Pow8 ELSE b[at + 3])

(***************************************************************************)
(* Go strings.  A string value is modelled as the sequence of code points  *)
(* it encodes (raw = FALSE) or, for the undecoded fallback, as the bytes   *)
(* it holds verbatim (raw = TRUE).  The empty string has one form.         *)
(***************************************************************************)
GoString(raw, seq) == [raw |-> raw /\ seq # <<>>, cps |-> seq]
EmptyString == GoString(FALSE, <<>>)

\* utf8.RuneError, U+FFFD
RuneError == Pow16 - 3

(***************************************************************************)
(* unicode/utf16.Decode: a unit outside the surrogate range is its own     *)
(* code point, a high surrogate followed by a low one is combined, any     *)
(* other surrogate becomes U+FFFD.                                         *)
(***************************************************************************)
IsHighSurrogate(u) == u >= 55296 /\ u < 56320
IsLowSurrogate(u) == u >= 56320 /\ u < 57344

RECURSIVE UTF16DecodeFrom(_, _)
UTF16DecodeFrom(s, i) ==
    IF i > Len(s) THEN <<>>
    ELSE IF ~IsHighSurrogate(s[i]) /\ ~IsLowSurrogate(s[i])
         THEN <<s[i]>> \o UTF16DecodeFrom(s, i + 1)
    ELSE IF IsHighSurrogate(s[i]) /\ i + 1 <= Len(s) /\ IsLowSurrogate(s[i + 1])
         THEN <<(s[i] - 55296) * 1024 + (s[i + 1] - 56320) + Pow16>>
              \o UTF16DecodeFrom(s, i + 2)
    ELSE <<RuneError>> \o UTF16DecodeFrom(s, i + 1)

UTF16Decode(s) == UTF16DecodeFrom(s, 1)

(***************************************************************************)
(* japanese.ShiftJIS decoding of a byte sequence.  ASCII bytes and 0x80    *)
(* map to themselves, 0xA1..0xDF to half-width katakana, a lead byte with  *)
(* a valid trail byte to the JIS X 0208 table entry of the pair; anything  *)
(* else becomes U+FFFD.  The table's content is kept symbolic: entry i is  *)
(* the value JisBase + i, above every Unicode code point.                  *)
(***************************************************************************)
JisBase == 17 * Pow16
Jis0208(i) == JisBase + i

IsSJISLead(c) == (c >= 129 /\ c < 160) \/ (c >= 224 /\ c < 253)
SJISRow(c0) == 2 * (IF c0 <= 159 THEN c0 - 112 ELSE c0 - 176) - 33

RECURSIVE ShiftJISDecodeFrom(_, _)
ShiftJISDecodeFrom(b, i) ==
    IF i > Len(b) THEN <<>>
    ELSE IF b[i] < 128 THEN <<b[i]>> \o ShiftJISDecodeFrom(b, i + 1)
    ELSE IF b[i] >= 161 /\ b[i] < 224
         THEN <<b[i] + (65377 - 161)>> \o ShiftJISDecodeFrom(b, i + 1)
    ELSE IF IsSJISLead(b[i])
         THEN IF i + 1 > Len(b) THEN <<RuneError>>
              ELSE LET c1 == b[i + 1]
                       r == SJISRow(b[i])
                   IN  IF c1 < 64 \/ c1 = 127
                       THEN <<RuneError>> \o ShiftJISDecodeFrom(b, i + 1)
                       ELSE IF c1 < 127
                       THEN <<Jis0208((r - 1) * 94 + (c1 - 64))>>
                            \o ShiftJISDecodeFrom(b, i + 2)
                       ELSE IF c1 < 159
                       THEN <<Jis0208((r - 1) * 94 + (c1 - 65))>>
                            \o ShiftJISDecodeFrom(b, i + 2)
                       ELSE IF c1 < 253
                       THEN <<Jis0208(r * 94 + (c1 - 159))>>
                            \o ShiftJISDecodeFrom(b, i + 2)
                       ELSE <<RuneError>> \o ShiftJISDecodeFrom(b, i + 2)
    ELSE IF b[i] = 128 THEN <<128>> \o ShiftJISDecodeFrom(b, i + 1)
    ELSE <<RuneError>> \o ShiftJISDecodeFrom(b, i + 1)

ShiftJISDecode(b) == ShiftJISDecodeFrom(b, 1)

(***************************************************************************)
(* Reader.ReadString(shift) on a stream.  A stream is its remaining bytes  *)
(* and the fault met when they run out ("eof": a short read, "ioerr": an   *)
(* I/O error).  decodeFails is the outcome of transform.Bytes: whether the *)
(* text decoder reported an error.  The result holds the returned string   *)
(* and error, the units handed to the text decoder, the bytes consumed     *)
(* and the number of reads issued.                                         *)
(***************************************************************************)
StrResult(str, err, units, consumed, reads) ==
    [str |-> str, err |-> err, units |-> units, consumed |-> consumed, reads |-> reads]

\* the units of buf up to the first one whose shifted value is zero
RECURSIVE ShiftedUntilZero(_, _, _, _)
ShiftedUntilZero(buf, i, shift, width) ==
    IF i > Len(buf) THEN <<>>
    ELSE LET val == (buf[i] - shift) % width
         IN  IF val = 0 THEN <<>>
             ELSE <<val>> \o ShiftedUntilZero(buf, i + 1, shift, width)

\* a variant that keeps only the low byte of each shifted unit
ReadStringMultiByte_LowByte(data, fault, shift, wrappedLen) ==
    LET count == GoDiv(wrappedLen, 2)
    IN  IF count <= 0 THEN StrResult(EmptyString, "nil", <<>>, 4, 1)
        ELSE IF Len(data) < 4 + 2 * count
        THEN StrResult(EmptyString, fault, <<>>, Len(data), 2)
        ELSE LET buf == [k \in 1..count |-> FromLE16(data, 4 + 2 * k - 1)]
                 runes == ShiftedUntilZero(buf, 1, shift, Pow8)
             IN  StrResult(GoString(FALSE, UTF16Decode(runes)), "nil", runes,
                           4 + 2 * count, 2)

ReadStringMultiByte(data, fault, shift, wrappedLen) ==
    LET count == GoDiv(wrappedLen, 2)
    IN  IF count <= 0 THEN StrResult(EmptyString, "nil", <<>>, 4, 1)
        ELSE IF Len(data) < 4 + 2 * count
        THEN StrResult(EmptyString, fault, <<>>, Len(data), 2)
        ELSE LET buf == [k \in 1..count |-> FromLE16(data, 4 + 2 * k - 1)]
                 runes == ShiftedUntilZero(buf, 1, shift, Pow16)
             IN  StrResult(GoString(FALSE, UTF16Decode(runes)), "nil", runes,
                           4 + 2 * count, 2)

\* a variant that hands a decoder failure to the caller
ReadStringSingleByte_DecodeError(data, fault, shift, wrappedLen, decodeFails) ==
    LET count == wrappedLen
    IN  IF count <= 0 THEN StrResult(EmptyString, "nil", <<>>, 4, 1)
        ELSE IF Len(data) < 4 + count
        THEN StrResult(EmptyString, fault, <<>>, Len(data), 2)
        ELSE LET buf == [k \in 1..count |-> data[4 + k]]
                 validBytes == ShiftedUntilZero(buf, 1, shift, Pow8)
             IN  IF decodeFails
                 THEN StrResult(EmptyString, "decode", validBytes, 4 + count, 2)
                 ELSE StrResult(GoString(FALSE, ShiftJISDecode(validBytes)), "nil",
                                validBytes, 4 + count, 2)

ReadStringSingleByte(data, fault, shift, wrappedLen, decodeFails) ==
    LET count == wrappedLen
    IN  IF count <= 0 THEN StrResult(EmptyString, "nil", <<>>, 4, 1)
        ELSE IF Len(data) < 4 + count
        THEN StrResult(EmptyString, fault, <<>>, Len(data), 2)
        ELSE LET buf == [k \in 1..count |-> data[4 + k]]
                 validBytes == ShiftedUntilZero(buf, 1, shift, Pow8)
             IN  IF decodeFails
                 THEN StrResult(GoString(TRUE, validBytes), "nil", validBytes,
                                4 + count, 2)
                 ELSE StrResult(GoString(FALSE, ShiftJISDecode(validBytes)), "nil",
                                validBytes, 4 + count, 2)

\* a variant that stops reading at the terminator unit
ReadString_StopsAtZero(data, fault, shift, MultiByteC, decodeFails) ==
    IF Len(data) < 4 THEN StrResult(EmptyString, fault, <<>>, Len(data), 1)
    ELSE LET wrappedLen == FromLE32(data, 1)
             r == IF MultiByteC
                  THEN ReadStringMultiByte(data, fault, shift, wrappedLen)
                  ELSE ReadStringSingleByte(data, fault, shift, wrappedLen, decodeFails)
             unit == IF MultiByteC THEN 2 ELSE 1
         IN  IF wrappedLen = 0 THEN StrResult(EmptyString, "nil", <<>>, 4, 1)
             ELSE IF r.err = "nil" /\ r.reads = 2
             THEN [r EXCEPT !.consumed = 4 + unit * (Len(r.units) + 1)]
             ELSE r

ReadString(data, fault, shift, MultiByteC, decodeFails) ==
    IF Len(data) < 4 THEN StrResult(EmptyString, fault, <<>>, Len(data), 1)
    ELSE LET wrappedLen == FromLE32(data, 1)
         IN  IF wrappedLen = 0 THEN StrResult(EmptyString, "nil", <<>>, 4, 1)
             ELSE IF MultiByteC
             THEN ReadStringMultiByte(data, fault, shift, wrappedLen)
             ELSE ReadStringSingleByte(data, fault, shift, wrappedLen, decodeFails)

(***************************************************************************)
(* A stored string as the tests build it: the 4-byte length prefix (the    *)
(* unit count in single-byte mode, the byte count in multi-byte mode, the  *)
(* terminator included), then each unit plus the shift, then the shifted   *)
(* terminator.                                                             *)
(***************************************************************************)
RECURSIVE Flatten(_)
Flatten(ss) == IF ss = <<>> THEN <<>> ELSE Head(ss) \o Flatten(Tail(ss))

StoredString(units, shift, MultiByteC) ==
    LET all == units \o <<0>>
    IN  IF MultiByteC
        THEN LE32(2 * Len(all))
             \o Flatten([k \in 1..Len(all) |-> LE16(ToUint16(all[k] + shift))])
        ELSE LE32(Len(all)) \o [k \in 1..Len(all) |-> ToByte(all[k] + shift)]

(***************************************************************************)
(* State.                                                                  *)
(***************************************************************************)
VARIABLES
    stack,       \* the call stack of the parse, innermost frame first
    reader,      \* Reader.StringShift and Reader.MultiByteC
    stream,      \* the byte source: at end of file, a read has failed,
                 \* a read was issued after a failed one
    PDO,         \* Parser.PDO, the model under construction
    result,      \* how Load ended: "running", "ok", "error", "panic"
    err,         \* the error Load returned, as its chain of wrapped messages
    ret,         \* what ParseFile returned
    hdrFields,   \* the header fields ReadHeader issued a read for, in order
    lastStr,     \* the ReadString call of the latest step, if it made one:
                 \* its field and shift argument
    matDecoded,  \* the material names as ReadShiftedString returned them
    hasUnfold,   \* ReadUnfoldData's presence flag: "unread", "zero", "nonzero"
    sIn,         \* the input a function is applied to (SpecStr and the
                 \* specifications of the exporters)
    sOut         \* its result

vars == <<stack, reader, stream, PDO, result, err, ret, hdrFields, lastStr,
          matDecoded, hasUnfold, sIn, sOut>>

parseVars == <<stack, reader, stream, PDO, result, err, ret, hdrFields, lastStr,
               matDecoded, hasUnfold>>

(***************************************************************************)
(* Program constants.                                                      *)
(***************************************************************************)
PDO_V4 == 4
PDO_V6 == 6
TextureDataWrapperSize == 6
PageTypeOther == 11

(***************************************************************************)
(* What the environment puts on the stream.                                *)
(***************************************************************************)
FailKinds == {"eof", "ioerr"}
Versions == {4, 5, 6, 7}
MultiByteVals == {0, 1}
ShiftVals == {0, 257}
\* count fields: of the materials and the header's lock blocks,
CountVals == {-1} \cup (0..MaxCount)
\* of the other lists of the model, whose lengths PDO keeps,
ListCountVals == {-1, 0, 1}
\* and of the lists nested in an element
SubCountVals == {-1, 0, 1, 2}
FlagVals == {0, 1, 2}
MagicVals == {"version 3\n", "version 4\n"}
FileMagic == "version 3\n"
WrappedSizeVals == {5, 6, 8}
PageTypeVals == {0, 11}

\* what the stream may hold at a string field: nothing, a zero prefix, a
\* prefix with no body, a prefix with a two-byte body; the text decoder
\* accepts these bytes
StrSampleData == {<<>>, LE32(0), LE32(2), LE32(2) \o <<66, 1>>}
StrSamples == [data : StrSampleData, fault : FailKinds]

(***************************************************************************)
(* Values.                                                                 *)
(***************************************************************************)
Nil == [nil |-> TRUE]
NoError == <<>>
NoStr == [field |-> "none", shift |-> 0]

ZeroHeader == [Version |-> 0, MultiByteChars |-> 0, StringShift |-> 0, V6Lock |-> 0]
\* Material{}: of a material the model keeps its name
ZeroMaterial == [Name |-> EmptyString]
\* &PDO{}: Objects, Parts, TextBlocks and Images are kept as their lengths
ZeroPDO ==
    [Header |-> ZeroHeader, Objects |-> 0, Materials |-> <<>>, Parts |-> 0,
     TextBlocks |-> 0, Images |-> 0]

Frame(fn, at) == [fn |-> fn, at |-> at, i |-> 0, n |-> 0]
FrameN(fn, at, i, n) == [fn |-> fn, at |-> at, i |-> i, n |-> n]

Top == stack[1]
At(fn, at) == stack # <<>> /\ Top.fn = fn /\ Top.at = at
In(fn) == stack # <<>> /\ Top.fn = fn
Goto(at) == [stack EXCEPT ![1].at = at]
GotoN(at, i, n) == [stack EXCEPT ![1] = FrameN(Top.fn, at, i, n)]
Return == Tail(stack)

\* the stage function Load called: the frame right above Load's
StageFn == stack[Len(stack) - 1].fn

\* Load wraps the error of each stage
LoadWrap_Shifted(fn) ==
    CASE fn = "ReadHeader" -> "failed to read header"
      [] fn = "ReadObjects" -> "failed to read objects"
      [] fn = "ReadMaterials" -> "failed to read materials"
      [] fn = "ReadUnfoldData" -> "failed to read materials"
      [] fn = "ReadSettings" -> "failed to read settings"
LoadWrap(fn) ==
    CASE fn = "ReadHeader" -> "failed to read header"
      [] fn = "ReadObjects" -> "failed to read objects"
      [] fn = "ReadMaterials" -> "failed to read materials"
      [] fn = "ReadUnfoldData" -> "failed to read unfold data"
      [] fn = "ReadSettings" -> "failed to read settings"

\* ParseFile's return values for each way Load ends; a panic is not recovered
ParseFileReturn(res, e, pdo) ==
    CASE res = "ok" -> [model |-> pdo, err |-> NoError]
      [] res = "error" -> [model |-> Nil, err |-> e]
      [] OTHER -> [model |-> Nil, err |-> <<"no return">>]

(***************************************************************************)
(* Pieces of a step.                                                       *)
(***************************************************************************)
\* the stream after one more read, successful or failing with `kind`
Issued(ok, kind) ==
    [eof |-> stream.eof \/ (~ok /\ kind = "eof"),
     failed |-> stream.failed \/ ~ok,
     afterFail |-> stream.afterFail \/ stream.failed]

\* the header field a ReadHeader label reads
HdrField(at) ==
    CASE at = "ShowStartupNotes_afterKey" -> "ShowStartupNotes"
      [] at = "PasswordFlag_afterKey" -> "PasswordFlag"
      [] OTHER -> at

Issue(ok, kind) ==
    /\ stream' = Issued(ok, kind)
    /\ hdrFields' = IF Top.fn = "ReadHeader"
                    THEN Append(hdrFields, HdrField(Top.at))
                    ELSE hdrFields

NoIssue == UNCHANGED <<stream, hdrFields>>

\* the faults a read can meet: at end of file, only end of file
Kinds == IF stream.eof THEN {"eof"} ELSE FailKinds

Running == UNCHANGED <<result, err, ret, sIn, sOut>>
\* no ReadString call in this step
NoStrCall == lastStr' = NoStr
SameData == UNCHANGED <<reader, PDO, matDecoded, hasUnfold>> /\ NoStrCall

\* Load returns: its result, and through it ParseFile's
Finish(res, e) ==
    /\ stack' = <<>>
    /\ result' = res
    /\ err' = e
    /\ ret' = ParseFileReturn(res, e, PDO')
    /\ UNCHANGED <<sIn, sOut>>

\* a read of a non-empty buffer succeeds and control moves on
OkTo(newStack) ==
    /\ ~stream.eof
    /\ Issue(TRUE, "nil")
    /\ stack' = newStack
    /\ Running

\* the read fails: the error goes up to Load, which wraps it
Fails(wrap) ==
    \E k \in Kinds :
        /\ Issue(FALSE, k)
        /\ SameData
        /\ Finish("error", <<LoadWrap(StageFn)>> \o wrap \o <<k>>)

\* make() of a negative length panics, right after the count was read
Panics ==
    /\ ~stream.eof
    /\ Issue(TRUE, "nil")
    /\ SameData
    /\ Finish("panic", NoError)

\* a step that reads nothing (loop control, a read into an empty buffer)
Control(newStack) ==
    /\ NoIssue
    /\ SameData
    /\ stack' = newStack
    /\ Running

(***************************************************************************)
(* A string field: one ReadString call on what the stream holds there.     *)
(* ReadShiftedString passes Reader.StringShift.  The call issues one read  *)
(* (the prefix) or two (prefix and units); only its last read can fail.    *)
(***************************************************************************)
StrCalls(shift) ==
    {ReadString(smp.data, smp.fault, shift, reader.MultiByteC, FALSE) :
        smp \in StrSamples}

StrIssued(r) ==
    [eof |-> stream.eof \/ r.err = "eof",
     failed |-> stream.failed \/ r.err # "nil",
     afterFail |-> stream.afterFail \/ stream.failed]

\* at end of file the prefix read fails; otherwise any sample may be there
StrPossible(r) == IF stream.eof THEN r.reads = 1 /\ r.err = "eof" ELSE TRUE

\* the call at the current label with shift argument `shift`: r is its result
StrRead(r, shift) ==
    /\ StrPossible(r)
    /\ stream' = StrIssued(r)
    /\ hdrFields' = IF Top.fn = "ReadHeader"
                    THEN Append(hdrFields, HdrField(Top.at))
                    ELSE hdrFields
    /\ lastStr' = [field |-> Top.at, shift |-> shift]

\* a string field whose value the model does not keep
StrField(shift, newStack) ==
    \E r \in StrCalls(shift) :
        /\ StrRead(r, shift)
        /\ UNCHANGED <<reader, PDO, matDecoded, hasUnfold>>
        /\ IF r.err = "nil"
           THEN stack' = newStack /\ Running
           ELSE Finish("error", <<LoadWrap(StageFn), r.err>>)

(***************************************************************************)
(* ParseFile: os.Open, NewParser, Load.                                    *)
(***************************************************************************)
ParseFile ==
    /\ At("ParseFile", "Open")
    /\ UNCHANGED <<reader, stream, PDO, err, hdrFields, lastStr, matDecoded, hasUnfold,
                   sIn, sOut>>
    /\ \/ /\ stack' = <<Frame("Load", "ReadHeader")>>
          /\ result' = "running"
          /\ UNCHANGED ret
       \/ /\ stack' = <<>>
          /\ ret' = [model |-> Nil, err |-> <<"open failed">>]
          /\ UNCHANGED result

(***************************************************************************)
(* Parser.Load: the five stages in order, each error wrapped.              *)
(***************************************************************************)
NextStage_MaterialsFirst(s) ==
    CASE s = "ReadHeader" -> "ReadMaterials"
      [] s = "ReadMaterials" -> "ReadObjects"
      [] s = "ReadObjects" -> "ReadUnfoldData"
      [] s = "ReadUnfoldData" -> "ReadSettings"
      [] s = "ReadSettings" -> "return"
NextStage(s) ==
    CASE s = "ReadHeader" -> "ReadObjects"
      [] s = "ReadObjects" -> "ReadMaterials"
      [] s = "ReadMaterials" -> "ReadUnfoldData"
      [] s = "ReadUnfoldData" -> "ReadSettings"
      [] s = "ReadSettings" -> "return"

\* the first read of each stage
FirstLabel(s) ==
    CASE s = "ReadHeader" -> "magic"
      [] s = "ReadObjects" -> "count"
      [] s = "ReadMaterials" -> "count"
      [] s = "ReadUnfoldData" -> "hasUnfold"
      [] s = "ReadSettings" ->
            IF PDO.Header.Version = PDO_V6 /\ PDO.Parts > 0
            THEN "padCount" ELSE "ShowFlaps"

Load ==
    /\ In("Load")
    /\ NoIssue
    /\ SameData
    /\ IF Top.at = "return"
       THEN Finish("ok", NoError)
       ELSE /\ stack' = <<Frame(Top.at, FirstLabel(Top.at))>> \o Goto(NextStage(Top.at))
            /\ Running

(***************************************************************************)
(* Parser.ReadHeader.                                                      *)
(***************************************************************************)
\* the two flag bytes follow the key string (the else branch of the
\* version-6 test)
FlagsAfterKey_OnlyV5(version) == version = 5
FlagsAfterKey(version) == version # PDO_V6 /\ version > PDO_V4

\* Reader.StringShift = byte(h.StringShift)
ShiftByte_NoTruncation(v) == v
ShiftByte(v) == ToByte(v)

\* the label after a header field whose value decides nothing further
HeaderNext(at) ==
    CASE at = "unknownInt" ->
            IF PDO.Header.Version > PDO_V4 THEN "DesignerID" ELSE "Locale"
      [] at = "DesignerID" -> "StringShift"
      [] at = "Locale" -> "Codepage"
      [] at = "Codepage" -> "TexLock"
      [] at = "TexLock" ->
            IF PDO.Header.Version = PDO_V6 THEN "ShowStartupNotes" ELSE "Key"
      [] at = "ShowStartupNotes" -> "PasswordFlag"
      [] at = "PasswordFlag" -> "Key"
      [] at = "Key" ->
            IF PDO.Header.Version = PDO_V6 THEN "V6Lock"
            ELSE IF FlagsAfterKey(PDO.Header.Version) THEN "ShowStartupNotes_afterKey"
            ELSE "AssembledHeight"
      [] at = "ShowStartupNotes_afterKey" -> "PasswordFlag_afterKey"
      [] at = "PasswordFlag_afterKey" -> "AssembledHeight"
      [] at = "AssembledHeight" -> "OriginOffset"
      [] at = "OriginOffset" -> "return"

HeaderPlain ==
    {"unknownInt", "TexLock", "ShowStartupNotes", "PasswordFlag",
     "ShowStartupNotes_afterKey", "PasswordFlag_afterKey", "AssembledHeight",
     "OriginOffset"}
HeaderStrings == {"DesignerID", "Locale", "Codepage", "Key"}

\* the message ReadHeader wraps a failed read in
HeaderWrap(at) ==
    CASE at = "magic" -> <<"read magic failed">>
      [] at = "Version" -> <<"read version failed">>
      [] at = "unknownInt" -> <<"read unknown int failed">>
      [] OTHER -> <<>>

Advance(nx) == IF nx = "return" THEN Return ELSE Goto(nx)

ReadHeader ==
    /\ In("ReadHeader")
    /\ \/ /\ Top.at = "magic"
          /\ \/ \E m \in MagicVals :
                    /\ SameData
                    /\ IF m = FileMagic
                       THEN OkTo(Goto("Version"))
                       ELSE /\ ~stream.eof
                            /\ Issue(TRUE, "nil")
                            /\ Finish("error", <<LoadWrap(StageFn), "invalid file magic">>)
             \/ Fails(HeaderWrap(Top.at))
       \/ /\ Top.at = "Version"
          /\ \/ \E v \in Versions :
                    /\ PDO' = [PDO EXCEPT !.Header.Version = v]
                    /\ UNCHANGED <<reader, matDecoded, hasUnfold>> /\ NoStrCall
                    /\ OkTo(Goto("MultiByteChars"))
             \/ Fails(HeaderWrap(Top.at))
       \/ /\ Top.at = "MultiByteChars"
          /\ \/ \E v \in MultiByteVals :
                    /\ PDO' = [PDO EXCEPT !.Header.MultiByteChars = v]
                    /\ reader' = [reader EXCEPT !.MultiByteC = (v = 1)]
                    /\ UNCHANGED <<matDecoded, hasUnfold>> /\ NoStrCall
                    /\ OkTo(Goto("unknownInt"))
             \/ Fails(HeaderWrap(Top.at))
       \/ /\ Top.at \in HeaderPlain
          /\ \/ SameData /\ OkTo(Advance(HeaderNext(Top.at)))
             \/ Fails(HeaderWrap(Top.at))
       \/ /\ Top.at \in HeaderStrings
          /\ StrField(IF Top.at = "DesignerID" THEN 0 ELSE reader.StringShift,
                      Goto(HeaderNext(Top.at)))
       \/ /\ Top.at = "StringShift"
          /\ \/ \E v \in ShiftVals :
                    /\ PDO' = [PDO EXCEPT !.Header.StringShift = v]
                    /\ reader' = [reader EXCEPT !.StringShift = ShiftByte(v)]
                    /\ UNCHANGED <<matDecoded, hasUnfold>> /\ NoStrCall
                    /\ OkTo(Goto("Locale"))
             \/ Fails(HeaderWrap(Top.at))
       \/ /\ Top.at = "V6Lock"
          /\ \/ \E v \in CountVals :
                    /\ PDO' = [PDO EXCEPT !.Header.V6Lock = v]
                    /\ UNCHANGED <<reader, matDecoded, hasUnfold>> /\ NoStrCall
                    /\ OkTo(IF v > 0 THEN GotoN("junk", 0, v) ELSE Goto("AssembledHeight"))
             \/ Fails(HeaderWrap(Top.at))
       \/ \* the skip blocks: the result of each read is dropped
          /\ Top.at = "junk"
          /\ SameData
          /\ Running
          /\ \E ok \in BOOLEAN, k \in Kinds :
                /\ ok => ~stream.eof
                /\ Issue(ok, k)
          /\ stack' = IF Top.i + 1 < Top.n
                      THEN GotoN("junk", Top.i + 1, Top.n)
                      ELSE Goto("AssembledHeight")

(***************************************************************************)
(* Shapes shared by the list readers.                                      *)
(***************************************************************************)
\* the label after `at` in a straight run of reads, "return" after the last
SuccIn(run, at) ==
    LET k == CHOOSE j \in 1..Len(run) : run[j] = at
    IN  IF k = Len(run) THEN "return" ELSE run[k + 1]

\* a read whose value decides nothing: on to `nx`, or the error goes up
Plain(nx) ==
    \/ SameData /\ OkTo(Advance(nx))
    \/ Fails(<<>>)

\* a read into a buffer of n elements: no read at all when n = 0
Sized(n, nx) ==
    IF n = 0 THEN Control(Advance(nx)) ELSE Plain(nx)

\* a count field followed by make(): a negative count panics in make
Count(vals, loopAt) ==
    \/ \E v \in vals :
            IF v < 0 THEN Panics
            ELSE SameData /\ OkTo(GotoN(loopAt, 0, v))
    \/ Fails(<<>>)

\* the same for a list of the model, whose length PDO keeps
CountOf(field, vals, loopAt) ==
    \/ \E v \in vals :
            IF v < 0 THEN Panics
            ELSE /\ PDO' = [PDO EXCEPT ![field] = v]
                 /\ UNCHANGED <<reader, matDecoded, hasUnfold>> /\ NoStrCall
                 /\ OkTo(GotoN(loopAt, 0, v))
    \/ Fails(<<>>)

\* for i < n: call callee on element i; then go on at `after`
Loop(callee, first, after) ==
    Control(IF Top.i < Top.n
            THEN <<FrameN(callee, first, Top.i, 0)>> \o GotoN(Top.at, Top.i + 1, Top.n)
            ELSE IF after = "return" THEN Return ELSE GotoN(after, 0, 0))

(***************************************************************************)
(* Parser.ReadObjects, ReadObject, ReadFace, ReadFace2DVertex.             *)
(***************************************************************************)
ReadObjects ==
    /\ In("ReadObjects")
    /\ \/ Top.at = "count" /\ CountOf("Objects", ListCountVals, "loop")
       \/ Top.at = "loop" /\ Loop("ReadObject", "Name", "return")

ReadObject ==
    /\ In("ReadObject")
    /\ \/ Top.at = "Name" /\ StrField(reader.StringShift, Goto("Visible"))
       \/ Top.at = "Visible" /\ Plain("numVertices")
       \/ Top.at = "numVertices" /\ Count(SubCountVals, "Vertices")
       \/ Top.at = "Vertices" /\ Sized(Top.n, "numFaces")
       \/ Top.at = "numFaces" /\ Count(SubCountVals, "Faces")
       \/ Top.at = "Faces" /\ Loop("ReadFace", "MaterialIndex", "numEdges")
       \/ Top.at = "numEdges" /\ Count(SubCountVals, "Edges")
       \/ /\ Top.at = "Edges"
          /\ IF Top.i < Top.n
             THEN \/ SameData /\ OkTo(GotoN("Edges", Top.i + 1, Top.n))
                  \/ Fails(<<>>)
             ELSE Control(Return)

FaceRun == <<"MaterialIndex", "PartIndex", "Nx", "Ny", "Nz", "Coord", "count">>

ReadFace ==
    /\ In("ReadFace")
    /\ \/ Top.at \in {"MaterialIndex", "PartIndex", "Nx", "Ny", "Nz", "Coord"}
          /\ Plain(SuccIn(FaceRun, Top.at))
       \/ Top.at = "count" /\ Count(SubCountVals, "Vertices")
       \/ Top.at = "Vertices" /\ Loop("ReadFace2DVertex", "IDVertex", "return")

Face2DVertexRun ==
    <<"IDVertex", "X", "Y", "U", "V", "Flap", "FlapHeight", "FlapAAngle", "FlapBAngle",
      "FlapFoldInfo">>

ReadFace2DVertex ==
    /\ In("ReadFace2DVertex")
    /\ Plain(SuccIn(Face2DVertexRun, Top.at))

(***************************************************************************)
(* Parser.ReadMaterials, ReadMaterial, ReadTexture.                        *)
(***************************************************************************)
RECURSIVE Digits(_)
\* the decimal digits of i >= 0, as code points (fmt's %d)
Digits(i) == IF i < 10 THEN <<48 + i>> ELSE Digits(i \div 10) \o <<48 + (i % 10)>>

\* fmt.Sprintf("named_material%d", i)
NamedMaterial(i) ==
    GoString(FALSE,
             <<110, 97, 109, 101, 100, 95, 109, 97, 116, 101, 114, 105, 97, 108>>
             \o Digits(i))

\* the name kept for material i (zero-based) whose decoded name is `name`
MaterialName_OneBased(name, i) == IF name = EmptyString THEN NamedMaterial(i + 1) ELSE name
MaterialName(name, i) == IF name = EmptyString THEN NamedMaterial(i) ELSE name

ReadMaterials ==
    /\ In("ReadMaterials")
    /\ \/ /\ Top.at = "count"
          /\ \/ \E v \in CountVals :
                    IF v < 0 THEN Panics
                    ELSE /\ PDO' = [PDO EXCEPT !.Materials = [k \in 1..v |-> ZeroMaterial]]
                         /\ UNCHANGED <<reader, matDecoded, hasUnfold>> /\ NoStrCall
                         /\ OkTo(GotoN("loop", 0, v))
             \/ Fails(<<>>)
       \/ /\ Top.at = "loop"
          /\ Control(IF Top.i < Top.n
                     THEN <<FrameN("ReadMaterial", "Name", Top.i, 0)>> \o Goto("name")
                     ELSE Return)
       \/ \* after ReadMaterial: an empty name is replaced
          /\ Top.at = "name"
          /\ NoIssue
          /\ Running
          /\ PDO' = [PDO EXCEPT !.Materials[Top.i + 1].Name = MaterialName(@, Top.i)]
          /\ UNCHANGED <<reader, matDecoded, hasUnfold>> /\ NoStrCall
          /\ stack' = GotoN("loop", Top.i + 1, Top.n)

MaterialRun == <<"Name", "Color3D", "a", "r", "g", "b", "texFlag">>

ReadMaterial ==
    /\ In("ReadMaterial")
    /\ \/ /\ Top.at = "Name"
          /\ \E r \in StrCalls(reader.StringShift) :
                /\ StrRead(r, reader.StringShift)
                /\ UNCHANGED <<reader, hasUnfold>>
                /\ IF r.err = "nil"
                   THEN /\ PDO' = [PDO EXCEPT !.Materials[Top.i + 1].Name = r.str]
                        /\ matDecoded' = Append(matDecoded, r.str)
                        /\ stack' = Goto("Color3D")
                        /\ Running
                   ELSE /\ UNCHANGED <<PDO, matDecoded>>
                        /\ Finish("error", <<LoadWrap(StageFn), r.err>>)
       \/ /\ Top.at \in {"Color3D", "a", "r", "g", "b"}
          /\ Plain(SuccIn(MaterialRun, Top.at))
       \/ /\ Top.at = "texFlag"
          /\ \/ \E v \in FlagVals :
                    /\ SameData
                    /\ OkTo(IF v = 1
                            THEN <<Frame("ReadTexture", "Width")>> \o Return
                            ELSE Return)
             \/ Fails(<<>>)

\* tex.DataSize = uint32(wrappedSize - TextureDataWrapperSize)
DataSize(wrappedSize) == ToUint32(wrappedSize - TextureDataWrapperSize)

ReadTexture ==
    /\ In("ReadTexture")
    /\ \/ Top.at = "Width" /\ Plain("Height")
       \/ Top.at = "Height" /\ Plain("wrappedSize")
       \/ /\ Top.at = "wrappedSize"
          /\ \/ \E v \in WrappedSizeVals :
                    SameData /\ OkTo(GotoN("DataHeader", v, DataSize(v)))
             \/ Fails(<<>>)
       \/ /\ Top.at = "DataHeader"
          /\ \/ SameData /\ OkTo(GotoN("RawData", Top.i, Top.n))
             \/ Fails(<<>>)
       \/ Top.at = "RawData" /\ Sized(IF IsZero32(Top.n) THEN 0 ELSE 1, "DataHash")
       \/ Top.at = "DataHash" /\ Plain("return")

(***************************************************************************)
(* Parser.ReadUnfoldData, ReadParts, ReadPart, ReadLine, ReadTextBlocks,   *)
(* ReadTextBlock, ReadImages, ReadImage.                                   *)
(***************************************************************************)
\* if hasUnfold == 0 { return nil }
UnfoldAbsent_Never(v) == FALSE
UnfoldAbsent(v) == v = 0

ReadUnfoldData ==
    /\ In("ReadUnfoldData")
    /\ \/ /\ Top.at = "hasUnfold"
          /\ \/ \E v \in FlagVals :
                    /\ hasUnfold' = IF v = 0 THEN "zero" ELSE "nonzero"
                    /\ UNCHANGED <<reader, PDO, matDecoded>> /\ NoStrCall
                    /\ OkTo(IF UnfoldAbsent(v) THEN Return ELSE Goto("Scale"))
             \/ Fails(<<>>)
       \/ Top.at = "Scale" /\ Plain("padding")
       \/ Top.at = "padding" /\ Plain("BoundingBox")
       \/ Top.at = "BoundingBox" /\ Plain("ReadParts")
       \/ Top.at = "ReadParts"
          /\ Control(<<Frame("ReadParts", "count")>> \o Goto("ReadTextBlocks"))
       \/ Top.at = "ReadTextBlocks"
          /\ Control(<<Frame("ReadTextBlocks", "count")>> \o Goto("ReadImages"))
       \/ Top.at = "ReadImages"
          /\ Control(<<Frame("ReadImages", "count")>> \o Goto("return"))
       \/ Top.at = "return" /\ Control(Return)

ReadParts ==
    /\ In("ReadParts")
    /\ \/ Top.at = "count" /\ CountOf("Parts", ListCountVals, "loop")
       \/ Top.at = "loop" /\ Loop("ReadPart", "ObjectIndex", "return")

ReadPart ==
    /\ In("ReadPart")
    /\ \/ Top.at = "ObjectIndex" /\ Plain("BoundingBox")
       \/ Top.at = "BoundingBox"
          /\ Plain(IF PDO.Header.Version > PDO_V4 THEN "Name" ELSE "count")
       \/ Top.at = "Name" /\ StrField(reader.StringShift, Goto("count"))
       \/ Top.at = "count" /\ Count(SubCountVals, "Lines")
       \/ Top.at = "Lines" /\ Loop("ReadLine", "isHidden", "return")

\* `isHidden == 1`, `secondIndex == 1`: a flag byte sets its bool only when
\* it is 1
IsOne_NonZero(b) == b # 0
IsOne(b) == b = 1

LineRun ==
    <<"isHidden", "Type", "unknownByte", "FaceIndex", "VertexIndex", "secondIndex">>

ReadLine ==
    /\ In("ReadLine")
    /\ \/ /\ Top.at \in {"isHidden", "Type", "unknownByte", "FaceIndex", "VertexIndex"}
          /\ Plain(SuccIn(LineRun, Top.at))
       \/ /\ Top.at = "secondIndex"
          /\ \/ \E v \in FlagVals :
                    SameData /\ OkTo(IF IsOne(v) THEN Goto("Face2Index") ELSE Return)
             \/ Fails(<<>>)
       \/ Top.at = "Face2Index" /\ Plain("Vertex2Index")
       \/ Top.at = "Vertex2Index" /\ Plain("return")

ReadTextBlocks ==
    /\ In("ReadTextBlocks")
    /\ \/ Top.at = "count" /\ CountOf("TextBlocks", ListCountVals, "loop")
       \/ Top.at = "loop" /\ Loop("ReadTextBlock", "BoundingBox", "return")

TextBlockRun == <<"BoundingBox", "LineSpacing", "Color", "FontSize", "FontName">>

ReadTextBlock ==
    /\ In("ReadTextBlock")
    /\ \/ /\ Top.at \in {"BoundingBox", "LineSpacing", "Color", "FontSize"}
          /\ Plain(SuccIn(TextBlockRun, Top.at))
       \/ Top.at = "FontName" /\ StrField(reader.StringShift, Goto("count"))
       \/ Top.at = "count" /\ Count(SubCountVals, "Lines")
       \/ /\ Top.at = "Lines"
          /\ IF Top.i < Top.n
             THEN StrField(reader.StringShift, GotoN("Lines", Top.i + 1, Top.n))
             ELSE Control(Return)

ReadImages ==
    /\ In("ReadImages")
    /\ \/ Top.at = "count" /\ CountOf("Images", ListCountVals, "loop")
       \/ Top.at = "loop" /\ Loop("ReadImage", "BoundingBox", "addCount")
       \/ /\ Top.at = "addCount"
          /\ \/ \E v \in ListCountVals :
                    /\ PDO' = IF v > 0 THEN [PDO EXCEPT !.Images = @ + v] ELSE PDO
                    /\ UNCHANGED <<reader, matDecoded, hasUnfold>> /\ NoStrCall
                    /\ OkTo(IF v > 0 THEN GotoN("loop2", 0, v) ELSE Return)
             \/ Fails(<<>>)
       \/ Top.at = "loop2" /\ Loop("ReadImage", "BoundingBox", "return")

ReadImage ==
    /\ In("ReadImage")
    /\ Top.at = "BoundingBox"
    /\ \/ SameData /\ OkTo(<<Frame("ReadTexture", "Width")>> \o Return)
       \/ Fails(<<>>)

(***************************************************************************)
(* Parser.ReadSettings.                                                    *)
(***************************************************************************)
SettingsRun ==
    <<"ShowFlaps", "ShowEdgeID", "EdgeIDPlacement", "FaceMaterial",
      "HideAlmostFlatFoldLines", "FoldLinesHidingAngle", "DrawWhiteLineUnderDotLine",
      "MountainFoldLineStyle", "ValleyFoldLineStyle", "CutLineStyle", "EdgeIDFontSize",
      "PageType", "CustomWidth", "CustomHeight", "Orientation", "MarginSide",
      "MarginTop", "MountainFoldLinePattern", "ValleyFoldLinePattern",
      "AddOutlinePadding", "ScaleFactor", "AuthorName", "Comment">>

SettingsPlain ==
    {SettingsRun[k] : k \in 1..Len(SettingsRun)} \ {"PageType", "ScaleFactor", "AuthorName", "Comment"}

\* the length in make([]byte, 4*parts); the counts drawn keep 4*parts an int32
SkipSize(parts) == 4 * parts

\* the next block of the version-6 padding, or the first settings field
PadNext ==
    IF Top.i + 1 < Top.n THEN GotoN("padParts", Top.i + 1, Top.n)
    ELSE GotoN("ShowFlaps", 0, 0)

ReadSettings ==
    /\ In("ReadSettings")
    /\ \/ /\ Top.at = "padCount"
          /\ \/ \E v \in ListCountVals :
                    /\ SameData
                    /\ OkTo(IF v > 0 THEN GotoN("padParts", 0, v) ELSE Goto("ShowFlaps"))
             \/ Fails(<<>>)
       \/ /\ Top.at = "padParts"
          /\ \/ \E v \in SubCountVals :
                    IF SkipSize(v) < 0 THEN Panics
                    ELSE /\ SameData
                         /\ OkTo(IF SkipSize(v) = 0 THEN PadNext
                                 ELSE GotoN("padSkip", Top.i, Top.n))
             \/ Fails(<<>>)
       \/ /\ Top.at = "padSkip"
          /\ \/ SameData /\ OkTo(PadNext)
             \/ Fails(<<>>)
       \/ Top.at \in SettingsPlain /\ Plain(SuccIn(SettingsRun, Top.at))
       \/ /\ Top.at = "PageType"
          /\ \/ \E v \in PageTypeVals :
                    SameData /\ OkTo(Goto(IF v = PageTypeOther THEN "CustomWidth"
                                          ELSE "Orientation"))
             \/ Fails(<<>>)
       \/ Top.at = "ScaleFactor"
          /\ Plain(IF PDO.Header.Version > PDO_V4 THEN "AuthorName" ELSE "return")
       \/ Top.at = "AuthorName" /\ StrField(reader.StringShift, Goto("Comment"))
       \/ Top.at = "Comment" /\ StrField(reader.StringShift, Return)

(***************************************************************************)
(* Spec: one ParseFile call.                                               *)
(***************************************************************************)
NoReturn == [model |-> Nil, err |-> <<"pending">>]
NoInput == [built |-> FALSE, data |-> <<>>, fault |-> "eof", shift |-> 0,
            MultiByteC |-> FALSE, decodeFails |-> FALSE, units |-> <<>>]
NoOutput == [pending |-> TRUE]

ParseIdle ==
    /\ reader = [StringShift |-> 0, MultiByteC |-> FALSE]
    /\ stream = [eof |-> FALSE, failed |-> FALSE, afterFail |-> FALSE]
    /\ PDO = ZeroPDO
    /\ result = "unopened"
    /\ err = NoError
    /\ ret = NoReturn
    /\ hdrFields = <<>>
    /\ lastStr = NoStr
    /\ matDecoded = <<>>
    /\ hasUnfold = "unread"

Init ==
    /\ stack = <<Frame("ParseFile", "Open")>>
    /\ ParseIdle
    /\ sIn = NoInput
    /\ sOut = NoOutput

Next ==
    \/ ParseFile
    \/ Load
    \/ ReadHeader
    \/ ReadObjects
    \/ ReadObject
    \/ ReadFace
    \/ ReadFace2DVertex
    \/ ReadMaterials
    \/ ReadMaterial
    \/ ReadTexture
    \/ ReadUnfoldData
    \/ ReadParts
    \/ ReadPart
    \/ ReadLine
    \/ ReadTextBlocks
    \/ ReadTextBlock
    \/ ReadImages
    \/ ReadImage
    \/ ReadSettings

Spec == Init /\ [][Next]_vars

(***************************************************************************)
(* Properties of the parser, checked under Spec.                           *)
(***************************************************************************)
Range(f) == {f[k] : k \in 1..Len(f)}
IsPrefix(a, b) == Len(a) <= Len(b) /\ a = SubSeq(b, 1, Len(a))
StageTags ==
    {"failed to read header", "failed to read objects", "failed to read materials",
     "failed to read unfold data", "failed to read settings"}

\* C1: every read that fails ends Load with an error, the skip blocks after
\* the version-6 lock count included, and no read is issued after a failed one
C1_FailedReadEndsLoad ==
    /\ stream.failed => result = "error"
    /\ ~stream.afterFail

\* C2: a negative count field never crashes the parser and never yields a
\* successfully returned Model: the parse ends with an error
C2_NegativeCountIsError ==
    /\ result # "panic"
    /\ PDO.Header.V6Lock < 0 => result # "ok"

\* the entities of the stages that had completed when Load returned e
CompletedEntities(e) ==
    (IF e[1] \in {"failed to read materials", "failed to read unfold data",
                  "failed to read settings"}
     THEN PDO.Objects ELSE 0)
    + (IF e[1] \in {"failed to read unfold data", "failed to read settings"}
       THEN Len(PDO.Materials) ELSE 0)
    + (IF e[1] = "failed to read settings"
       THEN PDO.Parts + PDO.TextBlocks + PDO.Images ELSE 0)

\* C3: after a failed parse ParseFile has returned a nil Model with the
\* error, and Parser.PDO holds no entity of the stages completed before it
C3_NoPartialModel ==
    result = "error" =>
        /\ ret.model = Nil
        /\ ret.err # NoError
        /\ CompletedEntities(err) = 0

\* the stage Load is running, from Load's own position: the frame of Load
\* is the outermost one and holds the stage that comes next
RunningStageTag ==
    LET nxt == stack[Len(stack)].at
    IN  CASE nxt = "ReadObjects" -> "failed to read header"
          [] nxt = "ReadMaterials" -> "failed to read objects"
          [] nxt = "ReadUnfoldData" -> "failed to read materials"
          [] nxt = "ReadSettings" -> "failed to read unfold data"
          [] nxt = "return" -> "failed to read settings"

\* C4: the error Load returns names exactly one stage, the one that was
\* running when the read failed; a wrong magic literal and a short read of
\* the magic give different errors
C4_ErrorNamesRunningStage ==
    [][result = "running" /\ result' = "error" =>
          /\ err' # NoError
          /\ err'[1] = RunningStageTag
          /\ \A k \in 2..Len(err') : err'[k] \notin StageTags
          /\ At("ReadHeader", "magic") =>
                IF stream'.failed
                THEN err'[2] = "read magic failed" /\ Len(err') = 3
                ELSE err' = <<"failed to read header", "invalid file magic">>]_vars

\* a read failed in the unfold data, after a part was read
C4_Witness ==
    /\ result = "error"
    /\ err[1] = "failed to read unfold data"
    /\ PDO.Parts = 1

\* ReadHeader has returned without error
HeaderDone ==
    \/ result = "ok"
    \/ /\ stack # <<>>
       /\ Top.fn \notin {"ParseFile", "ReadHeader"}
       /\ stack[Len(stack)].at # "ReadHeader"

Repeat(x, n) == [k \in 1..n |-> x]
FlagFields == <<"ShowStartupNotes", "PasswordFlag">>

\* the header fields in reading order, the flag bytes following the key
\* when flagsAfterKey
HeaderFields(version, lock, flagsAfterKey) ==
    <<"magic", "Version", "MultiByteChars", "unknownInt">>
    \o (IF version > 4 THEN <<"DesignerID", "StringShift">> ELSE <<>>)
    \o <<"Locale", "Codepage", "TexLock">>
    \o (IF version = 6 THEN FlagFields ELSE <<>>)
    \o <<"Key">>
    \o (IF version = 6
        THEN <<"V6Lock">> \o Repeat("junk", IF lock > 0 THEN lock ELSE 0)
        ELSE <<>>)
    \o (IF flagsAfterKey THEN FlagFields ELSE <<>>)
    \o <<"AssembledHeight", "OriginOffset">>

C6_ShiftSetOnce ==
    /\ [](/\ "StringShift" \notin Range(hdrFields) => reader.StringShift = 0
          /\ reader.StringShift \in 0..255
          /\ reader.StringShift = PDO.Header.StringShift % 256
          /\ lastStr # NoStr =>
                lastStr.shift = IF lastStr.field = "DesignerID" THEN 0
                                ELSE PDO.Header.StringShift % 256)
    /\ [][reader.StringShift' # reader.StringShift =>
             /\ At("ReadHeader", "StringShift")
             /\ PDO.Header.Version > 4
             /\ "StringShift" \notin Range(hdrFields)]_vars
    /\ [][lastStr' # NoStr /\ lastStr'.field # "DesignerID" =>
             "StringShift" \in Range(hdrFields) \/ PDO.Header.Version <= 4]_vars

\* a material name is decoded with shift 1, the low byte of the field 257
C6_Witness ==
    /\ lastStr.field = "Name"
    /\ In("ReadMaterial")
    /\ lastStr.shift = 1
    /\ PDO.Header.StringShift = 257

\* "named_material" followed by the one digit d
NamedMaterialDigit(d) ==
    [raw |-> FALSE,
     cps |-> <<110, 97, 109, 101, 100, 95, 109, 97, 116, 101, 114, 105, 97, 108, 48 + d>>]

\* C10: after a successful parse every material has a non-empty name: the
\* decoded name when that is not empty, named_material<N> with N the
\* zero-based index otherwise
C10_MaterialNames ==
    result = "ok" =>
        /\ Len(matDecoded) = Len(PDO.Materials)
        /\ \A k \in 1..Len(PDO.Materials) :
              /\ PDO.Materials[k].Name.cps # <<>>
              /\ PDO.Materials[k].Name =
                    IF matDecoded[k].cps = <<>> THEN NamedMaterialDigit(k - 1)
                    ELSE matDecoded[k]

\* a parse succeeded whose second material had an empty decoded name
C10_Witness ==
    /\ result = "ok"
    /\ Len(PDO.Materials) = 2
    /\ matDecoded[2].cps = <<>>
    /\ matDecoded[1].cps # <<>>

\* the functions that read the unfold section's records
UnfoldReaders ==
    {"ReadParts", "ReadPart", "ReadLine", "ReadTextBlocks", "ReadTextBlock",
     "ReadImages", "ReadImage"}

\* C11: once the unfold presence flag was read as 0, no Part, TextBlock or
\* Image record is read and the three lists stay empty; reading the flag 0
\* ends ReadUnfoldData and leaves Load at its next stage, ReadSettings; a
\* successful parse of such a file returns no error and the model as it was
\* counted, with every counted material present
C11_UnfoldAbsent ==
    /\ [](hasUnfold = "zero" =>
            /\ \A k \in 1..Len(stack) :
                  stack[k].fn \notin UnfoldReaders \cup {"ReadUnfoldData"}
            /\ PDO.Parts = 0 /\ PDO.TextBlocks = 0 /\ PDO.Images = 0
            /\ result = "error" => err[1] = "failed to read settings"
            /\ result = "ok" =>
                  /\ ret = [model |-> PDO, err |-> NoError]
                  /\ Len(PDO.Materials) = Len(matDecoded))
    /\ [][hasUnfold = "unread" /\ hasUnfold' = "zero" =>
             /\ At("ReadUnfoldData", "hasUnfold")
             /\ stack' = <<Frame("Load", "ReadSettings")>>]_vars

\* the minimal file: version 4, no object, no material, flag 0, parsed with
\* success
C11_Witness ==
    /\ result = "ok"
    /\ hasUnfold = "zero"
    /\ PDO.Header.Version = PDO_V4
    /\ PDO.Objects = 0
    /\ PDO.Materials = <<>>
    /\ ret.err = NoError

\* C30: the payload of a texture block has wrapped_size - 6 bytes, a
\* non-negative number: when ReadTexture is about to read the payload,
\* DataSize, the length RawData is made with, is below 2^16 and is
\* wrappedSize - 6 whenever that is not negative; no wrapped size gives a
\* length that wrapped around 2^32
C30_PayloadLength ==
    At("ReadTexture", "RawData") =>
        /\ Top.n.hi = 0
        /\ Top.i >= TextureDataWrapperSize =>
              Top.n.lo = Top.i - TextureDataWrapperSize

\* the stages in the order of Load and ReadUnfoldData; the magic check is
\* the first read of ReadHeader
Stages ==
    <<"ReadHeader", "ReadObjects", "ReadMaterials", "ReadUnfoldData",
      "ReadParts", "ReadTextBlocks", "ReadImages", "ReadSettings">>

\* the place of a stage in the order, 9 for the return of Load
Rank(label) ==
    CHOOSE k \in 1..9 :
        IF k = 9 THEN label = "return" ELSE Stages[k] = label

\* stage k was called and has not returned
Live(k) == \E j \in 1..Len(stack) : stack[j].fn = Stages[k]

\* how far the parse is: 2k while stage k runs, 2k - 1 when stage k is the
\* next one to be called
StagePos ==
    IF In("ParseFile") THEN 0
    ELSE LET live == {k \in 1..8 : Live(k)}
         IN  IF live = {} THEN 2 * Rank(stack[Len(stack)].at) - 1
             ELSE LET k == CHOOSE m \in live : \A n \in live : n <= m
                  IN  IF k = 4 /\ Top.at \in {"ReadParts", "ReadTextBlocks", "ReadImages"}
                      THEN 2 * Rank(Top.at) - 1
                      ELSE IF k = 4 /\ Top.at = "return" THEN 2 * 8 - 1
                      ELSE 2 * k

\* C23: the stages run in the order Header (its first read the magic
\* check), Objects, Materials, Unfold flag, Parts, TextBlocks, Images,
\* Settings.  The parse never goes back; a stage is called only when it is
\* the next in the order and no error was returned so far, and its first
\* read is the first of its function, so no stage runs twice; the lists
\* of the Model are created in their own stage only, the Images in two
\* blocks of which the second adds to the first; the stream is never
\* rewound, once at its end it stays there; and while a Part is
\* read, Header, Objects and Materials have been called and have returned
C23_StageOrder ==
    /\ [][stack # <<>> /\ stack' # <<>> =>
            /\ StagePos' >= StagePos
            /\ \A k \in 1..8 :
                  ~Live(k) /\ Live(k)' =>
                      /\ StagePos = 2 * k - 1
                      /\ result = "running" /\ result' = "running"
                      /\ stack'[1].fn = Stages[k]
                      /\ stack'[1].at \in {"magic", "count", "hasUnfold", "padCount",
                                          "ShowFlaps"}]_vars
    /\ [][/\ PDO.Objects' # PDO.Objects => At("ReadObjects", "count")
          /\ PDO.Materials' # PDO.Materials => Live(3)
          /\ PDO.Parts' # PDO.Parts => At("ReadParts", "count")
          /\ PDO.TextBlocks' # PDO.TextBlocks => At("ReadTextBlocks", "count")
          /\ PDO.Images' # PDO.Images =>
                In("ReadImages") /\ PDO.Images' > PDO.Images]_vars
    /\ [][stream.eof => stream'.eof]_vars
    /\ [](stack # <<>> /\ Top.fn \in {"ReadParts", "ReadPart", "ReadLine"} =>
            /\ stack[Len(stack)] = Frame("Load", "ReadSettings")
            /\ \A k \in 1..3 : ~Live(k))

\* the last stage running after every other stage ran: Settings of a file
\* with an object, a material and a part
C23_Witness ==
    /\ stack # <<>>
    /\ Live(8)
    /\ result = "running"
    /\ PDO.Objects > 0
    /\ PDO.Materials # <<>>
    /\ PDO.Parts > 0
    /\ hasUnfold = "nonzero"

(***************************************************************************)
(* SpecStr: ReadString applied to one stored string.  The input is either  *)
(* built from a unit sequence as the tests build it, or a length prefix    *)
(* followed by arbitrary bytes, or a stream that ends inside the prefix.   *)
(***************************************************************************)
SeqsUpTo(S, n) == UNION {[1..k -> S] : k \in 0..n}

\* non-zero units: ASCII, Shift-JIS lead, trail and katakana bytes
ByteUnits == {65, 147, 250, 177}
\* non-zero 16-bit units: ASCII, hiragana, one with a zero low byte, a
\* surrogate pair's halves, the largest unit
WideUnits == {65, 12354, 256, 55357, 56832, 65535}
StoreShifts == {0, 1, 255}
BodyBytes == {0, 1, 66}
PrefixVals == (-1)..(MaxBody + 1)

BuiltInputs ==
    {[built |-> TRUE, data |-> StoredString(u, sh, mb), fault |-> "eof", shift |-> sh,
      MultiByteC |-> mb, decodeFails |-> df, units |-> u] :
        mb \in BOOLEAN, sh \in StoreShifts, df \in BOOLEAN,
        u \in SeqsUpTo(ByteUnits \cup WideUnits, MaxUnits)}

ArbitraryInputs ==
    {[built |-> FALSE, data |-> d, fault |-> f, shift |-> sh,
      MultiByteC |-> mb, decodeFails |-> df, units |-> <<>>] :
        mb \in BOOLEAN, sh \in {0, 1}, df \in BOOLEAN, f \in FailKinds,
        d \in {LE32(p) \o b : p \in PrefixVals, b \in SeqsUpTo(BodyBytes, MaxBody)}
              \cup {<<>>, <<2, 0>>}}

\* a built input keeps to the units of its mode
WellBuilt(in) ==
    /\ \A k \in 1..Len(in.units) :
          in.units[k] \in (IF in.MultiByteC THEN WideUnits ELSE ByteUnits)
    /\ in.MultiByteC => ~in.decodeFails

StrInit ==
    /\ stack = <<>>
    /\ ParseIdle
    /\ sIn \in {in \in BuiltInputs : WellBuilt(in)} \cup ArbitraryInputs
    /\ sOut = NoOutput

ApplyReadString ==
    /\ sOut = NoOutput
    /\ sOut' = ReadString(sIn.data, sIn.fault, sIn.shift, sIn.MultiByteC, sIn.decodeFails)
    /\ UNCHANGED <<sIn, parseVars>>

StrNext == ApplyReadString

SpecStr == StrInit /\ [][StrNext]_vars

(***************************************************************************)
(* Properties of ReadString, checked under SpecStr.                        *)
(***************************************************************************)
Applied == sOut # NoOutput

\* units the text decoding maps to themselves: ASCII bytes, 16-bit units
\* outside the surrogate range
PlainUnits(units, MultiByteC) ==
    \A k \in 1..Len(units) :
        IF MultiByteC THEN units[k] < 55296 \/ units[k] >= 57344
        ELSE units[k] < 128

\* C7: a string stored with shift S (each unit plus S, wrapped at the unit
\* width, then the terminator, behind the length prefix) is read back by
\* ReadString(S) as the original units, whole 16-bit units in multi-byte mode
C7_RoundTrip ==
    Applied /\ sIn.built =>
        /\ sOut.err = "nil"
        /\ sOut.units = sIn.units
        /\ PlainUnits(sIn.units, sIn.MultiByteC) =>
              /\ sOut.str.cps = sIn.units
              /\ sOut.str.raw = (sIn.decodeFails /\ sIn.units # <<>>)

\* two 16-bit units, one above 255 and one with a zero low byte, stored
\* with shift 255, have been read back
C7_Witness ==
    /\ Applied
    /\ sIn.built
    /\ sIn.MultiByteC
    /\ sIn.shift = 255
    /\ sIn.units = <<12354, 256>>
    /\ sOut.str.cps = <<12354, 256>>

\* the length prefix of the input
Prefix == FromLE32(sIn.data, 1)
NonNeg(n) == IF n > 0 THEN n ELSE 0
\* prefix n over 2, rounded toward zero
HalfOf(n) == CHOOSE h \in (-Len(sIn.data) - 1)..(Len(sIn.data) + MaxBody + 2) :
                IF n >= 0 THEN 2 * h <= n /\ n < 2 * h + 2
                ELSE 2 * h >= n /\ n > 2 * h - 2

\* C8, as the code has it: a completed read consumes the 4-byte prefix and
\* then, for a prefix N, N bytes in single-byte mode and N/2 (rounded down)
\* two-byte units in multi-byte mode, nothing when that is not positive;
\* where a zero unit appears has no influence
C8_BytesConsumed ==
    Applied /\ Len(sIn.data) >= 4 /\ sOut.err = "nil" =>
        sOut.consumed = 4 + IF sIn.MultiByteC THEN 2 * NonNeg(HalfOf(Prefix))
                            ELSE NonNeg(Prefix)

\* C8 as stated: for a prefix N, N two-byte units are consumed in
\* multi-byte mode
C8_PrefixCountsUnits ==
    Applied /\ Len(sIn.data) >= 4 /\ sOut.err = "nil" =>
        sOut.consumed = 4 + IF sIn.MultiByteC THEN 2 * NonNeg(Prefix)
                            ELSE NonNeg(Prefix)

\* a multi-byte read with prefix 3 whose first unit is the terminator: one
\* unit consumed, one byte left on the stream
C8_Witness ==
    /\ Applied
    /\ sIn.MultiByteC
    /\ sIn.shift = 0
    /\ sIn.data = LE32(3) \o <<0, 0, 66>>
    /\ sOut.err = "nil"
    /\ sOut.consumed = 6

\* the bytes of the body, each minus the shift, up to the first zero
ShiftedBody ==
    LET n == Prefix
        sh == [k \in 1..n |-> (sIn.data[4 + k] - sIn.shift + 256) % 256]
        zeros == {k \in 1..n : sh[k] = 0}
        upTo == IF zeros = {} THEN n
                ELSE (CHOOSE k \in zeros : \A j \in zeros : k <= j) - 1
    IN  SubSeq(sh, 1, upTo)

\* C9: in single-byte mode, once the prefix and the unit bytes were read,
\* ReadString returns no error whatever the bytes are, and when the text
\* decoding fails the result is the raw shifted bytes up to the terminator
C9_DecodeFailureFallsBack ==
    Applied /\ ~sIn.MultiByteC /\ Len(sIn.data) >= 4 =>
        (Len(sIn.data) >= 4 + NonNeg(Prefix) =>
            /\ sOut.err = "nil"
            /\ sIn.decodeFails /\ Prefix > 0 =>
                  /\ sOut.str.cps = ShiftedBody
                  /\ sOut.str.raw = (ShiftedBody # <<>>))

\* the text decoding failed on a non-empty body and the raw bytes came back
C9_Witness ==
    /\ Applied
    /\ ~sIn.MultiByteC
    /\ ~sIn.built
    /\ sIn.decodeFails
    /\ sOut.err = "nil"
    /\ sOut.str = [raw |-> TRUE, cps |-> <<66>>]
    /\ Len(sIn.data) = 7

(***************************************************************************)
(* pkg/export/util.go: the lookups of a face's 2D vertex.  A *Face2DVertex *)
(* is modelled as the place it points to, face and index in the face's     *)
(* loop, both zero-based; nil is Nil.  Indexing a slice outside its range  *)
(* panics.                                                                 *)
(***************************************************************************)
Ref(face, index) == [face |-> face, index |-> index]
Panic == [panic |-> "index out of range"]

RECURSIVE IndexOfID(_, _, _)
\* for i := range vertices { if vertices[i].IDVertex == vertIdx ... }: the
\* first index from i on whose entry has the ID, -1 when the range ends
IndexOfID(vertices, vertIdx, i) ==
    IF i >= Len(vertices) THEN -1
    ELSE IF vertices[i + 1].IDVertex = vertIdx THEN i
    ELSE IndexOfID(vertices, vertIdx, i + 1)

\* if int(faceIdx) >= len(obj.Faces) { return nil }
BeyondFaces_Above(faceIdx, n) == faceIdx > n
BeyondFaces(faceIdx, n) == faceIdx >= n

get2DVertex(obj, faceIdx, vertIdx) ==
    IF BeyondFaces(faceIdx, Len(obj.Faces)) THEN Nil
    ELSE IF faceIdx \notin 0..(Len(obj.Faces) - 1) THEN Panic
    ELSE LET face == obj.Faces[faceIdx + 1]
             i == IndexOfID(face.Vertices, vertIdx, 0)
         IN  IF i < 0 THEN Nil ELSE Ref(faceIdx, i)

\* nextIdx := (i + 1) % len(face.Vertices)
NextIdx_Clamped(i, n) == IF i + 1 < n THEN i + 1 ELSE i
NextIdx(i, n) == (i + 1) % n

getNext2DVertex(obj, faceIdx, vertIdx) ==
    IF BeyondFaces(faceIdx, Len(obj.Faces)) THEN Nil
    ELSE IF faceIdx \notin 0..(Len(obj.Faces) - 1) THEN Panic
    ELSE LET face == obj.Faces[faceIdx + 1]
             i == IndexOfID(face.Vertices, vertIdx, 0)
         IN  IF i < 0 THEN Nil ELSE Ref(faceIdx, NextIdx(i, Len(face.Vertices)))

(***************************************************************************)
(* SpecLookup: the two lookups applied to one Object, face index and       *)
(* vertex ID.  One face of the Object carries any loop of IDs up to        *)
(* MaxLoop entries, repeated IDs included; the other faces carry a fixed   *)
(* loop.  An entry's coordinates tell its face and place.                  *)
(***************************************************************************)
VertexIDs == 0..(MaxLoop - 1)

\* the loop of face f (zero-based) with the IDs ids
LoopOf(ids, f) ==
    [k \in 1..Len(ids) |->
        [IDVertex |-> ids[k], X |-> 10 * f + k - 1, Y |-> 100 + 10 * f + k - 1]]

FaceOf(ids, f) == [Vertices |-> LoopOf(ids, f)]

OtherLoop == <<1, 0>>

\* n faces, face at (zero-based) carrying ids
ObjectWith(n, at, ids) ==
    [Faces |-> [f \in 1..n |-> FaceOf(IF f - 1 = at THEN ids ELSE OtherLoop, f - 1)]]

Objects ==
    {ObjectWith(n, at, ids) :
        n \in 0..MaxFaces, at \in 0..(MaxFaces - 1), ids \in SeqsUpTo(VertexIDs, MaxLoop)}

LookupInputs ==
    [obj : Objects, faceIdx : (-1)..(MaxFaces + 1), vertIdx : 0..MaxLoop]

LookupInit ==
    /\ stack = <<>>
    /\ ParseIdle
    /\ sIn \in LookupInputs
    /\ sOut = NoOutput

ApplyGet2DVertex ==
    /\ sOut = NoOutput
    /\ sOut' = [fn |-> "get2DVertex",
                ret |-> get2DVertex(sIn.obj, sIn.faceIdx, sIn.vertIdx)]
    /\ UNCHANGED <<sIn, parseVars>>

ApplyGetNext2DVertex ==
    /\ sOut = NoOutput
    /\ sOut' = [fn |-> "getNext2DVertex",
                ret |-> getNext2DVertex(sIn.obj, sIn.faceIdx, sIn.vertIdx)]
    /\ UNCHANGED <<sIn, parseVars>>

\* the function fn was called on the input
Called(fn) == sOut # NoOutput /\ sOut.fn = fn

LookupNext == ApplyGet2DVertex \/ ApplyGetNext2DVertex

SpecLookup == LookupInit /\ [][LookupNext]_vars

(***************************************************************************)
(* Properties of the lookups, checked under SpecLookup.                    *)
(***************************************************************************)
\* the loop of the face the input names, <<>> when there is no such face
LoopAt(in) ==
    IF in.faceIdx \in 0..(Len(in.obj.Faces) - 1)
    THEN in.obj.Faces[in.faceIdx + 1].Vertices ELSE <<>>

DistinctIDs(loop) ==
    \A j, k \in 1..Len(loop) : loop[j].IDVertex = loop[k].IDVertex => j = k

\* C12: on a face whose N >= 1 loop entries have distinct IDs, the
\* next-in-loop lookup with the ID of loop[i] returns loop[(i+1) mod N]:
\* loop[0] for the last entry, the entry itself when N = 1
C12_NextInLoop ==
    Called("getNext2DVertex") =>
        LET loop == LoopAt(sIn)
            N == Len(loop)
        IN  N >= 1 /\ DistinctIDs(loop) =>
                \A i \in 0..(N - 1) :
                    loop[i + 1].IDVertex = sIn.vertIdx =>
                        /\ sOut.ret = Ref(sIn.faceIdx, (i + 1) % N)
                        /\ i = N - 1 => sOut.ret = Ref(sIn.faceIdx, 0)
                        /\ N = 1 => sOut.ret = Ref(sIn.faceIdx, i)

\* the last entry of a loop of three distinct IDs was looked up and the
\* first entry came back
C12_Witness ==
    /\ Called("getNext2DVertex")
    /\ Len(LoopAt(sIn)) = 3
    /\ DistinctIDs(LoopAt(sIn))
    /\ LoopAt(sIn)[3].IDVertex = sIn.vertIdx
    /\ sOut.ret = Ref(sIn.faceIdx, 0)

\* C13: the direct lookup returns nil, without a panic, when the face index
\* is at or beyond the face count and when the face's loop has no entry
\* with the ID; when there is such an entry it returns one (the first)
C13_DirectLookup ==
    Called("get2DVertex") =>
        LET loop == LoopAt(sIn)
            hits == {k \in 1..Len(loop) : loop[k].IDVertex = sIn.vertIdx}
        IN  /\ sIn.faceIdx >= Len(sIn.obj.Faces) => sOut.ret = Nil
            /\ sIn.faceIdx \in 0..(Len(sIn.obj.Faces) - 1) /\ hits = {} =>
                  sOut.ret = Nil
            /\ hits # {} =>
                  /\ sOut.ret.face = sIn.faceIdx
                  /\ sOut.ret.index + 1 \in hits
                  /\ \A k \in hits : sOut.ret.index + 1 <= k

\* the face index equal to the face count of an Object that has faces
C13_Witness ==
    /\ Called("get2DVertex")
    /\ sIn.faceIdx = Len(sIn.obj.Faces)
    /\ sIn.faceIdx > 0
    /\ sOut.ret = Nil

\* C27: neither lookup crashes, whatever the face index and the vertex ID
\* are, a negative face index and an empty loop included; and where the
\* direct lookup finds a vertex the next-in-loop lookup on the same face and
\* ID finds one too
C27_LookupsNeverCrash ==
    Called("get2DVertex") \/ Called("getNext2DVertex") =>
        /\ sOut.ret # Panic
        /\ get2DVertex(sIn.obj, sIn.faceIdx, sIn.vertIdx) \notin {Nil, Panic} =>
              getNext2DVertex(sIn.obj, sIn.faceIdx, sIn.vertIdx) \notin {Nil, Panic}

(***************************************************************************)
(* SVGWriter.WritePart (pkg/export/svg.go) and writePartPDF (pkg/export/   *)
(* obj.go): the segments a Part's Lines yield.  Coordinates are exact      *)
(* numbers.  What a Line yields is Nil (the loop continues), Panic, or the *)
(* segment drawn: its two vertices and the coordinates handed to the       *)
(* output.                                                                 *)
(***************************************************************************)
Deref(obj, ref) == obj.Faces[ref.face + 1].Vertices[ref.index + 1]

\* v2 of WritePart: the second face's vertex for a connecting Line, the
\* next vertex of the same face otherwise
SvgEnd_ConnectingOnly(obj, line) ==
    IF line.IsConnectingFaces
    THEN get2DVertex(obj, line.Face2Index, line.Vertex2Index)
    ELSE Nil
SvgEnd(obj, line) ==
    IF line.IsConnectingFaces
    THEN get2DVertex(obj, line.Face2Index, line.Vertex2Index)
    ELSE getNext2DVertex(obj, line.FaceIndex, line.VertexIndex)

\* the body of WritePart's loop on one Line
WritePartLine(obj, line) ==
    IF line.Hidden THEN Nil
    ELSE LET v1 == get2DVertex(obj, line.FaceIndex, line.VertexIndex)
         IN  IF v1 = Panic THEN Panic
             ELSE IF v1 = Nil THEN Nil
             ELSE LET v2 == SvgEnd(obj, line)
                  IN  IF v2 = Panic THEN Panic
                      ELSE IF v2 = Nil THEN Nil
                      ELSE [v1 |-> v1, v2 |-> v2,
                            x1 |-> Deref(obj, v1).X, y1 |-> Deref(obj, v1).Y,
                            x2 |-> Deref(obj, v2).X, y2 |-> Deref(obj, v2).Y]

\* the body of writePartPDF's loop on one Line
writePartPDFLine(obj, line, part, offX, offY) ==
    IF line.Hidden THEN Nil
    ELSE LET v1 == get2DVertex(obj, line.FaceIndex, line.VertexIndex)
         IN  IF v1 = Panic THEN Panic
             ELSE IF v1 = Nil THEN Nil
             ELSE LET v2 == IF line.IsConnectingFaces
                            THEN get2DVertex(obj, line.Face2Index, line.Vertex2Index)
                            ELSE getNext2DVertex(obj, line.FaceIndex, line.VertexIndex)
                  IN  IF v2 = Panic THEN Panic
                      ELSE IF v2 = Nil THEN Nil
                      ELSE [v1 |-> v1, v2 |-> v2,
                            x1 |-> (Deref(obj, v1).X + part.BoundingBox.Left) - offX,
                            y1 |-> (Deref(obj, v1).Y + part.BoundingBox.Top) - offY,
                            x2 |-> (Deref(obj, v2).X + part.BoundingBox.Left) - offX,
                            y2 |-> (Deref(obj, v2).Y + part.BoundingBox.Top) - offY]

(***************************************************************************)
(* SpecLines: one call of either renderer on one Part.  The Model has one  *)
(* Object of two faces, with the loops 0 1 2 and 1 0.  A Line that does    *)
(* not connect two faces has the zero second endpoint the parser leaves.   *)
(***************************************************************************)
LineObject == ObjectWith(2, 0, <<0, 1, 2>>)

Line(hidden, face, vert, conn, face2, vert2) ==
    [Hidden |-> hidden, FaceIndex |-> face, VertexIndex |-> vert,
     IsConnectingFaces |-> conn, Face2Index |-> face2, Vertex2Index |-> vert2]

LineSamples ==
    {Line(FALSE, f, v, FALSE, 0, 0) : f \in {-1, 0, 2}, v \in {2, 5}}
    \cup {Line(FALSE, f, v, TRUE, e[1], e[2]) :
            f \in {-1, 0, 2}, v \in {2, 5}, e \in {<<1, 1>>, <<1, 5>>, <<-1, 1>>}}
    \cup {Line(TRUE, f, 2, c, 0, 0) : f \in {-1, 0}, c \in BOOLEAN}

LineInputs ==
    [p : {[Objects |-> <<LineObject>>]},
     part : [ObjectIndex : {-1, 0, 1},
             BoundingBox : {[Left |-> 200, Top |-> 30]},
             Lines : SeqsUpTo(LineSamples, MaxLines)],
     offX : {-10, 180},
     offY : {-15}]

LinesInit ==
    /\ stack = <<>>
    /\ ParseIdle
    /\ sIn \in LineInputs
    /\ sOut = NoOutput

\* obj := p.Objects[part.ObjectIndex], then the loop from its first Line
RenderCall(fn) ==
    /\ sOut = NoOutput
    /\ sOut' = [fn |-> fn, i |-> 0, segs |-> <<>>,
                state |-> IF sIn.part.ObjectIndex \in 0..(Len(sIn.p.Objects) - 1)
                          THEN "running" ELSE "panicked"]

\* the renderer fn is in its loop
InLoop(fn) == Called(fn) /\ sOut.state = "running"

\* one round of the loop, the Line yielding y, or the return after the last
\* Line
RenderRound(y) ==
    IF sOut.i >= Len(sIn.part.Lines)
    THEN sOut' = [sOut EXCEPT !.state = "returned"]
    ELSE IF y = Panic THEN sOut' = [sOut EXCEPT !.state = "panicked"]
    ELSE sOut' = [sOut EXCEPT
                     !.i = @ + 1,
                     !.segs = IF y = Nil THEN @
                              ELSE Append(@, [line |-> sOut.i, seg |-> y])]

\* the Object and the Line of the round, Nil after the last Line
RoundObject == sIn.p.Objects[sIn.part.ObjectIndex + 1]
RoundLine ==
    IF sOut.i < Len(sIn.part.Lines) THEN sIn.part.Lines[sOut.i + 1] ELSE Nil

WritePart ==
    /\ \/ RenderCall("WritePart")
       \/ /\ InLoop("WritePart")
          /\ RenderRound(IF RoundLine = Nil THEN Nil
                         ELSE WritePartLine(RoundObject, RoundLine))
    /\ UNCHANGED <<sIn, parseVars>>

writePartPDF ==
    /\ \/ RenderCall("writePartPDF")
       \/ /\ InLoop("writePartPDF")
          /\ RenderRound(IF RoundLine = Nil THEN Nil
                         ELSE writePartPDFLine(RoundObject, RoundLine, sIn.part,
                                               sIn.offX, sIn.offY))
    /\ UNCHANGED <<sIn, parseVars>>

LinesNext == WritePart \/ writePartPDF

SpecLines == LinesInit /\ [][LinesNext]_vars

(***************************************************************************)
(* Properties of the renderers, checked under SpecLines.                   *)
(***************************************************************************)
Found(v) == v # Nil /\ v # Panic

\* the lookups the rule names for the start and the end of a Line
RuleStart(obj, line) == get2DVertex(obj, line.FaceIndex, line.VertexIndex)
RuleEnd(obj, line) ==
    IF line.IsConnectingFaces
    THEN get2DVertex(obj, line.Face2Index, line.Vertex2Index)
    ELSE getNext2DVertex(obj, line.FaceIndex, line.VertexIndex)

RuleYields(obj, line) ==
    ~line.Hidden /\ Found(RuleStart(obj, line)) /\ Found(RuleEnd(obj, line))

RECURSIVE RuleSegments(_, _, _)
\* the segments of the first n Lines by the rule, in the Lines' order
RuleSegments(obj, lines, n) ==
    IF n = 0 THEN <<>>
    ELSE LET rest == RuleSegments(obj, lines, n - 1)
             line == lines[n]
         IN  IF RuleYields(obj, line)
             THEN Append(rest, [line |-> n - 1, v1 |-> RuleStart(obj, line),
                                v2 |-> RuleEnd(obj, line)])
             ELSE rest

Endpoints(segs) ==
    [k \in 1..Len(segs) |->
        [line |-> segs[k].line, v1 |-> segs[k].seg.v1, v2 |-> segs[k].seg.v2]]

Rendering == sOut # NoOutput /\ sIn.part.ObjectIndex \in 0..(Len(sIn.p.Objects) - 1)

C28_UnmatchedPartSkipped ==
    /\ Called("WritePart") \/ Called("writePartPDF")
    /\ sIn.part.ObjectIndex \notin 0..(Len(sIn.p.Objects) - 1)
    => sOut.state # "panicked" /\ sOut.segs = <<>>

(***************************************************************************)
(* pkg/export/util.go: getPageDims.  Lengths are exact numbers counted in  *)
(* thousandths of a millimetre; float64 rounding is not modelled.          *)
(***************************************************************************)
Mm(x) == x * 1000

\* w and h before the orientation is looked at: A4, or the custom size
\* where the class is 11 and the stored value is positive
basePage(settings) ==
    LET custom == settings.PageType = PageTypeOther
    IN  [w |-> IF custom /\ settings.CustomWidth > 0
               THEN settings.CustomWidth ELSE Mm(210),
         h |-> IF custom /\ settings.CustomHeight > 0
               THEN settings.CustomHeight ELSE Mm(297)]

\* mt, ms after `if p.Settings.Orientation == 1 { mt, ms = ms, mt }`
margins_Unswapped(settings) ==
    [mt |-> Mm(settings.MarginTop), ms |-> Mm(settings.MarginSide)]
margins(settings) ==
    IF settings.Orientation = 1
    THEN [mt |-> Mm(settings.MarginSide), ms |-> Mm(settings.MarginTop)]
    ELSE [mt |-> Mm(settings.MarginTop), ms |-> Mm(settings.MarginSide)]

getPageDims(p) ==
    LET base == basePage(p.Settings)
        w == IF p.Settings.Orientation = 1 THEN base.h ELSE base.w
        h == IF p.Settings.Orientation = 1 THEN base.w ELSE base.h
        m == margins(p.Settings)
    IN  [Width |-> w, Height |-> h, MarginLeft |-> m.ms, MarginTop |-> m.mt,
         ClippedWidth |-> w - 2 * m.ms, ClippedHeight |-> h - 2 * m.mt]

(***************************************************************************)
(* SpecDims: getPageDims applied to the page fields of one Settings value. *)
(***************************************************************************)
PageSettings ==
    [PageType : {0, 3, PageTypeOther},
     CustomWidth : {Mm(-5), Mm(0), Mm(100), Mm(250)},
     CustomHeight : {Mm(0), Mm(150), Mm(250)},
     Orientation : {0, 1, 2},
     MarginTop : {-3, 0, 15, 105},
     MarginSide : {0, 10, 105, 150}]

DimsInit ==
    /\ stack = <<>>
    /\ ParseIdle
    /\ sIn \in [Settings : PageSettings]
    /\ sOut = NoOutput

ApplyGetPageDims ==
    /\ sOut = NoOutput
    /\ sOut' = [fn |-> "getPageDims", ret |-> getPageDims(sIn)]
    /\ UNCHANGED <<sIn, parseVars>>

DimsNext == ApplyGetPageDims

SpecDims == DimsInit /\ [][DimsNext]_vars

(***************************************************************************)
(* Properties of getPageDims, checked under SpecDims.                      *)
(***************************************************************************)
A4Landscape ==
    [PageType |-> 0, CustomWidth |-> Mm(0), CustomHeight |-> Mm(0),
     Orientation |-> 1, MarginTop |-> 15, MarginSide |-> 10]

\* C15: with Orientation 1 the page width and height are the base height
\* and width, the left margin is the stored top margin and the top margin
\* the stored side margin (A4 with side margin 10 and top margin 15 gives
\* 297 by 210 with margins 15 and 10); with Orientation 0 nothing is
\* swapped; either way ClippedWidth = Width - 2*MarginLeft and
\* ClippedHeight = Height - 2*MarginTop
C15_OrientationSwap ==
    Called("getPageDims") =>
        LET s == sIn.Settings
            d == sOut.ret
            base == basePage(s)
        IN  /\ s.Orientation = 1 =>
                  /\ d.Width = base.h /\ d.Height = base.w
                  /\ d.MarginLeft = Mm(s.MarginTop) /\ d.MarginTop = Mm(s.MarginSide)
            /\ s.Orientation = 0 =>
                  /\ d.Width = base.w /\ d.Height = base.h
                  /\ d.MarginLeft = Mm(s.MarginSide) /\ d.MarginTop = Mm(s.MarginTop)
            /\ d.ClippedWidth = d.Width - 2 * d.MarginLeft
            /\ d.ClippedHeight = d.Height - 2 * d.MarginTop
            /\ s = A4Landscape =>
                  /\ d.Width = Mm(297) /\ d.Height = Mm(210)
                  /\ d.MarginLeft = Mm(15) /\ d.MarginTop = Mm(10)

\* the A4 example of the claim, in landscape
C15_Witness ==
    /\ Called("getPageDims")
    /\ sIn.Settings = A4Landscape
    /\ sOut.ret.ClippedWidth = Mm(267)
    /\ sOut.ret.ClippedHeight = Mm(190)

\* C25: the base page size, the size before the orientation is applied,
\* comes from the page-size class: with the custom class 11 it is the stored
\* CustomWidth by CustomHeight whatever the stored values are, and with
\* class 0 it is A4, 210 by 297
C25_BaseFromClass ==
    Called("getPageDims") =>
        LET s == sIn.Settings
            w == IF s.Orientation = 1 THEN sOut.ret.Height ELSE sOut.ret.Width
            h == IF s.Orientation = 1 THEN sOut.ret.Width ELSE sOut.ret.Height
        IN  /\ s.PageType = PageTypeOther =>
                  w = s.CustomWidth /\ h = s.CustomHeight
            /\ s.PageType = 0 => w = Mm(210) /\ h = Mm(297)

\* C29: whatever Settings were parsed, the printable width and height that
\* the page grid divides by are strictly positive
C29_PositiveDivisors ==
    Called("getPageDims") =>
        sOut.ret.ClippedWidth > 0 /\ sOut.ret.ClippedHeight > 0

(***************************************************************************)
(* pkg/export/util.go, obj.go, svg.go: the page grid and the two exports.  *)
(* int(math.Floor(a / b)) is the floor of the exact quotient; the divisor  *)
(* is not zero in what follows.                                            *)
(***************************************************************************)
\* the quotient rounded toward zero
FloorDiv_Truncated(a, b) ==
    IF (a >= 0) = (b > 0) THEN (IF a >= 0 THEN a ELSE -a) \div (IF b > 0 THEN b ELSE -b)
    ELSE -((IF a >= 0 THEN a ELSE -a) \div (IF b > 0 THEN b ELSE -b))
FloorDiv(a, b) == IF b > 0 THEN a \div b ELSE (-a) \div (-b)

\* px, py (ppx, ppy) of a Part
pageCell(part, dims) ==
    [px |-> FloorDiv(part.BoundingBox.Left, dims.ClippedWidth),
     py |-> FloorDiv(part.BoundingBox.Top, dims.ClippedHeight)]

\* if px > maxX { maxX = px }
Larger(px, maxX) == IF px > maxX THEN px ELSE maxX

RECURSIVE gridOver(_, _, _, _)
\* the loop of calculatePageGrid from Part k on
gridOver(parts, dims, k, max) ==
    IF k > Len(parts) THEN max
    ELSE LET c == pageCell(parts[k], dims)
         IN  gridOver(parts, dims, k + 1,
                      [maxX |-> Larger(c.px, max.maxX), maxY |-> Larger(c.py, max.maxY)])

calculatePageGrid(p, dims) == gridOver(p.Parts, dims, 1, [maxX |-> 0, maxY |-> 0])

RECURSIVE partsOnPageFrom(_, _, _, _, _)
\* the loop of getPartsOnPage from Part k on; a *Part is the Part's place
\* in p.Parts
partsOnPageFrom(parts, px, py, dims, k) ==
    IF k > Len(parts) THEN <<>>
    ELSE LET c == pageCell(parts[k], dims)
             rest == partsOnPageFrom(parts, px, py, dims, k + 1)
         IN  IF c.px = px /\ c.py = py THEN <<k>> \o rest ELSE rest

getPartsOnPage(p, px, py, dims) == partsOnPageFrom(p.Parts, px, py, dims, 1)

\* the largest right and bottom edge ExportSVG finds, from its start value
FarLow == -(Mm(100000) - 100)

RECURSIVE extentOver(_, _, _)
extentOver(parts, k, max) ==
    IF k > Len(parts) THEN max
    ELSE LET bb == parts[k].BoundingBox
         IN  extentOver(parts, k + 1,
                        [maxX |-> Larger(bb.Left + bb.Width, max.maxX),
                         maxY |-> Larger(bb.Top + bb.Height, max.maxY)])

\* what ExportSVG writes: nothing for a Model without Parts, else a canvas
\* from the origin (viewBox "0 0 width height") and every Part in order
ExportSVGOutput(p) ==
    LET dims == getPageDims(p)
        grid == calculatePageGrid(p, dims)
        pagesWidth == (grid.maxX + 1) * dims.Width
        pagesHeight == (grid.maxY + 1) * dims.Height
        ext == extentOver(p.Parts, 1, [maxX |-> FarLow, maxY |-> FarLow])
    IN  IF p.Parts = <<>> THEN [written |-> FALSE]
        ELSE [written |-> TRUE,
              width |-> Larger(ext.maxX, pagesWidth),
              height |-> Larger(ext.maxY, pagesHeight),
              parts |-> [k \in 1..Len(p.Parts) |-> k]]

(***************************************************************************)
(* SpecGrid: the grid functions and the two exports on one Model.  Its     *)
(* Settings are A4 with margins that leave a printable area, or with a     *)
(* side margin wider than half the page (a negative ClippedWidth).  Its    *)
(* Parts have no Lines; their boundaries lie on both sides of the origin   *)
(* and of the first page boundary.                                         *)
(***************************************************************************)
GridSettings ==
    {[PageType |-> 0, CustomWidth |-> Mm(0), CustomHeight |-> Mm(0),
      Orientation |-> 0, MarginTop |-> 15, MarginSide |-> ms] : ms \in {10, 150}}

Rects ==
    [Left : {Mm(-1), Mm(0), Mm(190) - 1, Mm(190)},
     Top : {Mm(-1), Mm(0), Mm(267)},
     Width : {Mm(10), Mm(300)},
     Height : {Mm(10)}]

GridParts == {[ObjectIndex |-> 0, BoundingBox |-> r, Lines |-> <<>>] : r \in Rects}

GridInputs ==
    [Settings : GridSettings, Objects : {<<LineObject>>},
     Parts : SeqsUpTo(GridParts, MaxParts)]

\* the columns and rows asked of getPartsOnPage
CellRange == (-1)..2

GridInit ==
    /\ stack = <<>>
    /\ ParseIdle
    /\ sIn \in GridInputs
    /\ sOut = NoOutput

ApplyCalculatePageGrid ==
    /\ sOut = NoOutput
    /\ sOut' = [fn |-> "calculatePageGrid",
                ret |-> calculatePageGrid(sIn, getPageDims(sIn))]
    /\ UNCHANGED <<sIn, parseVars>>

ApplyGetPartsOnPage ==
    /\ sOut = NoOutput
    /\ \E px, py \in CellRange :
          sOut' = [fn |-> "getPartsOnPage", px |-> px, py |-> py,
                   ret |-> getPartsOnPage(sIn, px, py, getPageDims(sIn))]
    /\ UNCHANGED <<sIn, parseVars>>

\* ExportPDF: the call up to the page loops, then one round of the inner
\* loop per step (a sheet with its Parts drawn, or nothing for an empty
\* cell), then pdf.Output
ExportPDF ==
    /\ \/ /\ sOut = NoOutput
          /\ LET dims == getPageDims(sIn)
                 grid == calculatePageGrid(sIn, dims)
             IN  sOut' = [fn |-> "ExportPDF", state |-> "running", dims |-> dims,
                          maxPX |-> grid.maxX, maxPY |-> grid.maxY,
                          px |-> 0, py |-> 0, sheets |-> <<>>]
       \/ /\ Called("ExportPDF")
          /\ sOut.state = "running"
          /\ IF sOut.py > sOut.maxPY
             THEN sOut' = [sOut EXCEPT !.state = "returned"]
             ELSE LET partsOnPage == getPartsOnPage(sIn, sOut.px, sOut.py, sOut.dims)
                      offX == sOut.px * sOut.dims.ClippedWidth - sOut.dims.MarginLeft
                      offY == sOut.py * sOut.dims.ClippedHeight - sOut.dims.MarginTop
                      sheet == [px |-> sOut.px, py |-> sOut.py,
                                offX |-> offX, offY |-> offY, parts |-> partsOnPage]
                      wrap == sOut.px >= sOut.maxPX
                  IN  sOut' = [sOut EXCEPT
                                  !.sheets = IF partsOnPage = <<>> THEN @
                                             ELSE Append(@, sheet),
                                  !.px = IF wrap THEN 0 ELSE @ + 1,
                                  !.py = IF wrap THEN @ + 1 ELSE @]
    /\ UNCHANGED <<sIn, parseVars>>

ExportSVG ==
    /\ sOut = NoOutput
    /\ sOut' = [fn |-> "ExportSVG", ret |-> ExportSVGOutput(sIn)]
    /\ UNCHANGED <<sIn, parseVars>>

GridNext ==
    \/ ApplyCalculatePageGrid
    \/ ApplyGetPartsOnPage
    \/ ExportPDF
    \/ ExportSVG

SpecGrid == GridInit /\ [][GridNext]_vars

(***************************************************************************)
(* Properties of the page grid and the exports, checked under SpecGrid.    *)
(***************************************************************************)
\* c is the floor of a / b: c*b <= a < (c+1)*b, mirrored for a negative b
IsFloorOf(c, a, b) ==
    IF b > 0 THEN c * b <= a /\ a < (c + 1) * b
    ELSE c * b >= a /\ a > (c + 1) * b

PartNumbers == 1..Len(sIn.Parts)
LeftOf(k) == sIn.Parts[k].BoundingBox.Left
TopOf(k) == sIn.Parts[k].BoundingBox.Top

\* C16: a Part is among the Parts of the cell (px, py) iff px is the floor
\* of Left / ClippedWidth and py the floor of Top / ClippedHeight, also for
\* a negative Left or Top, whatever its Width and Height; with ClippedWidth
\* 190, Left 0 is in column 0, Left 190 in column 1, Left 189.999 in
\* column 0
C16_FloorCell ==
    Called("getPartsOnPage") =>
        LET dims == getPageDims(sIn)
        IN  \A k \in PartNumbers :
                /\ k \in Range(sOut.ret) <=>
                      /\ IsFloorOf(sOut.px, LeftOf(k), dims.ClippedWidth)
                      /\ IsFloorOf(sOut.py, TopOf(k), dims.ClippedHeight)
                /\ k \in Range(sOut.ret) /\ dims.ClippedWidth = Mm(190) =>
                      /\ LeftOf(k) = Mm(0) => sOut.px = 0
                      /\ LeftOf(k) = Mm(190) => sOut.px = 1
                      /\ LeftOf(k) = Mm(190) - 1 => sOut.px = 0

\* a Part at Left -1 and a Part just short of the page boundary, the one
\* in column -1 and the other, wider than a page, in column 0
C16_Witness ==
    /\ Called("getPartsOnPage")
    /\ Len(sIn.Parts) = 2
    /\ LeftOf(1) = Mm(-1) /\ LeftOf(2) = Mm(190) - 1
    /\ sIn.Parts[2].BoundingBox.Width = Mm(300)
    /\ sOut.px = 0 /\ sOut.py = 0
    /\ sOut.ret = <<2>>

SetMax(S) == CHOOSE m \in S : \A x \in S : x <= m
Columns == {pageCell(sIn.Parts[k], getPageDims(sIn)).px : k \in PartNumbers}
Rows == {pageCell(sIn.Parts[k], getPageDims(sIn)).py : k \in PartNumbers}

\* C17: the grid extent is the largest column and the largest
\* row of the Parts, (0, 0) without Parts
C17_MaxOverParts ==
    Called("calculatePageGrid") =>
        IF sIn.Parts = <<>> THEN sOut.ret = [maxX |-> 0, maxY |-> 0]
        ELSE sOut.ret = [maxX |-> SetMax(Columns), maxY |-> SetMax(Rows)]

SheetNumbers == 1..Len(sOut.sheets)

\* C18: after the PDF export every Part is on exactly one sheet, the sheet
\* of its cell, and every sheet holds a Part
C18_EveryPartOnOneSheet ==
    Called("ExportPDF") /\ sOut.state = "returned" =>
        /\ \A k \in PartNumbers :
              \E n \in SheetNumbers :
                  /\ k \in Range(sOut.sheets[n].parts)
                  /\ [px |-> sOut.sheets[n].px, py |-> sOut.sheets[n].py]
                        = pageCell(sIn.Parts[k], sOut.dims)
                  /\ \A m \in SheetNumbers : k \in Range(sOut.sheets[m].parts) => m = n
        /\ \A n \in SheetNumbers : sOut.sheets[n].parts # <<>>

Right(k) == LeftOf(k) + sIn.Parts[k].BoundingBox.Width
Bottom(k) == TopOf(k) + sIn.Parts[k].BoundingBox.Height
SetMin(S) == CHOOSE m \in S : \A x \in S : m <= x

\* C19: the SVG canvas is the bounding rectangle of the Parts' rectangles,
\* at least one page wide and high when one cell is occupied, and contains
\* the rectangle of every Part
C19_CanvasIsBoundingRect ==
    Called("ExportSVG") /\ sIn.Parts # <<>> =>
        LET dims == getPageDims(sIn)
            minX == SetMin({LeftOf(k) : k \in PartNumbers})
            minY == SetMin({TopOf(k) : k \in PartNumbers})
            maxX == SetMax({Right(k) : k \in PartNumbers})
            maxY == SetMax({Bottom(k) : k \in PartNumbers})
            oneCell == Cardinality({pageCell(sIn.Parts[k], dims) : k \in PartNumbers}) = 1
        IN  /\ sOut.ret.written
            /\ sOut.ret.width = IF oneCell THEN Larger(maxX - minX, dims.Width)
                                ELSE maxX - minX
            /\ sOut.ret.height = IF oneCell THEN Larger(maxY - minY, dims.Height)
                                 ELSE maxY - minY
            /\ \A k \in PartNumbers :
                  /\ 0 <= LeftOf(k) /\ Right(k) <= sOut.ret.width
                  /\ 0 <= TopOf(k) /\ Bottom(k) <= sOut.ret.height

(***************************************************************************)
(* pkg/pdo/texture.go: Texture.GetImage.  RawData is empty, or a deflate   *)
(* stream, modelled by what flate's reader delivers from it: the bytes it  *)
(* inflates to, then how it ends ("EOF" after a final block, or a "corrupt *)
(* input" or "unexpected EOF" error where the stream is malformed or cut   *)
(* short).  The reader hands out every byte inflated before an error.      *)
(***************************************************************************)
StreamEnds == {"EOF", "corrupt input", "unexpected EOF"}

\* io.ReadFull(r, out) for len(out) = size: nil when size bytes were read
\* (no read at all for size 0), else the error the stream ends with, EOF
\* turned into unexpected EOF after a partial read
ReadFull(raw, size) ==
    IF Len(raw.inflated) >= size
    THEN [out |-> SubSeq(raw.inflated, 1, size), err |-> "nil"]
    ELSE [out |-> raw.inflated,
          err |-> IF raw.end = "EOF" /\ raw.inflated # <<>>
                  THEN "unexpected EOF" ELSE raw.end]

\* the RGBA pixel at (x, y) of the image filled from out
PixelAt(out, width, x, y) ==
    LET k == 3 * (y * width + x)
    IN  [R |-> out[k + 1], G |-> out[k + 2], B |-> out[k + 3], A |-> 255]

\* the points of image.Rect(0, 0, width, height), which swaps a negative
\* bound with 0
RectPoints(width, height) ==
    (IF width >= 0 THEN 0..(width - 1) ELSE width..(-1))
        \X (IF height >= 0 THEN 0..(height - 1) ELSE height..(-1))

\* what GetImage gives back: an image and an error, or a panic
Gives(img, error) == [img |-> img, err |-> error, panicked |-> FALSE]
MakePanics == [img |-> Nil, err |-> NoError, panicked |-> TRUE]

\* GetImage made to refuse a payload whose stored checksum is not the one
\* computed over it, the length of what it inflates to standing for the sum
GetImage_Checked(t) ==
    IF t.RawData.empty THEN Gives(Nil, <<"no texture data">>)
    ELSE IF t.DataHash # Len(t.RawData.inflated)
    THEN Gives(Nil, <<"checksum mismatch">>)
    ELSE LET expectedSize == t.Width * t.Height * 3
             read == ReadFull(t.RawData, expectedSize)
         IN  IF expectedSize < 0 THEN MakePanics
             ELSE IF read.err # "nil"
             THEN Gives(Nil, <<"deflate read failed", read.err>>)
             ELSE Gives([pt \in RectPoints(t.Width, t.Height) |->
                            IF pt[1] >= 0 /\ pt[2] >= 0
                            THEN PixelAt(read.out, t.Width, pt[1], pt[2])
                            ELSE [R |-> 0, G |-> 0, B |-> 0, A |-> 0]],
                        NoError)

\* an image is its pixels by point <<x, y>>; a point the loops do not set
\* keeps the zero pixel
GetImage(t) ==
    IF t.RawData.empty THEN Gives(Nil, <<"no texture data">>)
    ELSE LET expectedSize == t.Width * t.Height * 3
             read == ReadFull(t.RawData, expectedSize)
         IN  IF expectedSize < 0 THEN MakePanics
             ELSE IF read.err # "nil"
             THEN Gives(Nil, <<"deflate read failed", read.err>>)
             ELSE Gives([pt \in RectPoints(t.Width, t.Height) |->
                            IF pt[1] >= 0 /\ pt[2] >= 0
                            THEN PixelAt(read.out, t.Width, pt[1], pt[2])
                            ELSE [R |-> 0, G |-> 0, B |-> 0, A |-> 0]],
                        NoError)

(***************************************************************************)
(* SpecTex: GetImage applied to one Texture.  The k-th inflated byte is k. *)
(***************************************************************************)
Counting(n) == [k \in 1..n |-> k]

RawDatas ==
    {[empty |-> TRUE, inflated |-> <<>>, end |-> "EOF"]}
    \cup {[empty |-> FALSE, inflated |-> Counting(n), end |-> e] :
            n \in 0..MaxInflated, e \in StreamEnds}

\* the checksums stored next to a payload: the one the payload of a 1 by 1
\* image would carry in the reading above, and two others
DataHashes == {0, 3, 7}

Textures ==
    [Width : (-1)..MaxSide, Height : (-1)..MaxSide, RawData : RawDatas,
     DataHash : DataHashes]

TexInit ==
    /\ stack = <<>>
    /\ ParseIdle
    /\ sIn \in Textures
    /\ sOut = NoOutput

ApplyGetImage ==
    /\ sOut = NoOutput
    /\ sOut' = [fn |-> "GetImage", ret |-> GetImage(sIn)]
    /\ UNCHANGED <<sIn, parseVars>>

TexNext == ApplyGetImage

SpecTex == TexInit /\ [][TexNext]_vars

(***************************************************************************)
(* Properties of GetImage, checked under SpecTex.                          *)
(***************************************************************************)
\* C20: GetImage succeeds only when the payload is well-formed and inflates
\* to exactly Width*Height*3 bytes, and then the image holds them row by
\* row from the top, R, G, B per pixel; a payload that is malformed or
\* inflates to fewer bytes gives an error and no image
C20_ExactPixelBuffer ==
    Called("GetImage") /\ sIn.Width >= 0 /\ sIn.Height >= 0 =>
        LET size == sIn.Width * sIn.Height * 3
            raw == sIn.RawData
        IN  /\ ~sOut.ret.panicked
            /\ sOut.ret.err = NoError =>
                  /\ ~raw.empty
                  /\ raw.end = "EOF"
                  /\ Len(raw.inflated) = size
                  /\ \A y \in 0..(sIn.Height - 1), x \in 0..(sIn.Width - 1) :
                        sOut.ret.img[<<x, y>>] =
                            PixelAt(raw.inflated, sIn.Width, x, y)
            /\ raw.empty \/ raw.end # "EOF" \/ Len(raw.inflated) < size =>
                  sOut.ret.err # NoError /\ sOut.ret.img = Nil

\* C26: the checksum stored with the payload has no influence on decoding:
\* a Texture of the same width, height and payload with any other checksum
\* decodes to the same result, the same image or the same error
C26_ChecksumIgnored ==
    Called("GetImage") =>
        \A h \in DataHashes : GetImage([sIn EXCEPT !.DataHash = h]) = sOut.ret

\* a 1 by 1 texture decoded to its pixel although the stored checksum is not
\* the payload's
C26_Witness ==
    /\ Called("GetImage")
    /\ sIn.Width = 1 /\ sIn.Height = 1
    /\ sIn.RawData.inflated = Counting(3)
    /\ sIn.DataHash = 7
    /\ sOut.ret.err = NoError
    /\ sOut.ret.img[<<0, 0>>] = [R |-> 1, G |-> 2, B |-> 3, A |-> 255]

(***************************************************************************)
(* ReadLine by its data: the Line it fills from the eight values a stream  *)
(* holds at that place, of which the first `good` can be read before the   *)
(* stream ends.                                                            *)
(***************************************************************************)
\* a Line of make([]Line, count)
ZeroLine ==
    [Hidden |-> FALSE, Type |-> 0, FaceIndex |-> 0, VertexIndex |-> 0,
     IsConnectingFaces |-> FALSE, Face2Index |-> 0, Vertex2Index |-> 0]

\* ReadLine returning err after it issued `reads` reads, the Line as it is
LineResult(l, reads, error) ==
    [fn |-> "ReadLine", line |-> l, reads |-> reads, err |-> error]

ReadLineInto(l, s) ==
    LET ok(k) == k <= s.good
        l1 == [l EXCEPT !.Hidden = IsOne(s.isHidden)]
        l2 == [l1 EXCEPT !.Type = s.Type]
        l4 == [l2 EXCEPT !.FaceIndex = s.FaceIndex]
        l5 == [l4 EXCEPT !.VertexIndex = s.VertexIndex]
        l6 == [l5 EXCEPT !.IsConnectingFaces = IsOne(s.secondIndex)]
        l7 == [l6 EXCEPT !.Face2Index = s.Face2Index]
        l8 == [l7 EXCEPT !.Vertex2Index = s.Vertex2Index]
    IN  IF ~ok(1) THEN LineResult(l, 1, s.fault)
        ELSE IF ~ok(2) THEN LineResult(l1, 2, s.fault)
        ELSE IF ~ok(3) THEN LineResult(l2, 3, s.fault)
        ELSE IF ~ok(4) THEN LineResult(l2, 4, s.fault)
        ELSE IF ~ok(5) THEN LineResult(l4, 5, s.fault)
        ELSE IF ~ok(6) THEN LineResult(l5, 6, s.fault)
        ELSE IF ~l6.IsConnectingFaces THEN LineResult(l6, 6, "nil")
        ELSE IF ~ok(7) THEN LineResult(l6, 7, s.fault)
        ELSE IF ~ok(8) THEN LineResult(l7, 8, s.fault)
        ELSE LineResult(l8, 8, "nil")

(***************************************************************************)
(* SpecLine: ReadLine applied to one stored Line record.                   *)
(***************************************************************************)
LineBytes == {0, 1, 2, 255}
LineIndices == {0, 5}

LineStreams ==
    [isHidden : LineBytes, Type : {1}, unknownByte : {0},
     FaceIndex : LineIndices, VertexIndex : LineIndices,
     secondIndex : LineBytes,
     Face2Index : LineIndices, Vertex2Index : LineIndices,
     good : 0..8, fault : {"EOF"}]

LineInit ==
    /\ stack = <<>>
    /\ ParseIdle
    /\ sIn \in LineStreams
    /\ sOut = NoOutput

ApplyReadLine ==
    /\ sOut = NoOutput
    /\ sOut' = ReadLineInto(ZeroLine, sIn)
    /\ UNCHANGED <<sIn, parseVars>>

LineNext == ApplyReadLine

SpecLine == LineInit /\ [][LineNext]_vars

(***************************************************************************)
(* Properties of ReadLine, checked under SpecLine.                         *)
(***************************************************************************)
\* C24: a Line never carries both endpoint forms.  The connects-two-faces
\* discriminant is true exactly when the stored byte is 1, and Hidden
\* likewise; with the discriminant false ReadLine stops after the
\* discriminant, so the second endpoint is not read and Face2Index and
\* Vertex2Index keep their zero value; with the discriminant true both are
\* read from the stream
C24_OneEndpointForm ==
    Called("ReadLine") =>
        LET l == sOut.line
        IN  /\ sIn.good >= 1 => l.Hidden = (sIn.isHidden = 1)
            /\ sOut.err = "nil" =>
                  /\ l.IsConnectingFaces = (sIn.secondIndex = 1)
                  /\ l.IsConnectingFaces =>
                        /\ sOut.reads = 8
                        /\ l.Face2Index = sIn.Face2Index
                        /\ l.Vertex2Index = sIn.Vertex2Index
            /\ ~l.IsConnectingFaces =>
                  /\ sOut.reads <= 6
                  /\ l.Face2Index = 0 /\ l.Vertex2Index = 0

\* a record with the discriminant byte 2 followed by a second endpoint: the
\* Line is read with success and without the endpoint
C24_Witness ==
    /\ Called("ReadLine")
    /\ sIn.secondIndex = 2
    /\ sIn.Face2Index = 5 /\ sIn.Vertex2Index = 5
    /\ sIn.good = 8
    /\ sOut.err = "nil"
    /\ sOut.reads = 6
    /\ ~sOut.line.IsConnectingFaces
    /\ sOut.line.Face2Index = 0

(***************************************************************************)
(* Two parses at once (pkg/pdo/parser.go, reader.go).  Each Parser is made *)
(* by NewParser with a Reader and a PDO of its own.  Of each parse the     *)
(* reads that set or use the decoder state are kept: MultiByteChars,       *)
(* StringShift (the files are of a version above 4), and the shifted       *)
(* string that follows, Locale.                                            *)
(***************************************************************************)
\* p.reader: the Reader that parse p sets and reads
ReaderOf_Shared(p) == 1
ReaderOf(p) == p

\* NewReader(r): &Reader{r: r}
NewReader == [StringShift |-> 0, MultiByteC |-> FALSE]

\* ReadHeader on file f with nothing else running: the fields stored and
\* Locale as ReadShiftedString returns it
HeaderOf(f) ==
    [MultiByteChars |-> f.MultiByteChars, StringShift |-> f.StringShift,
     Locale |-> ReadString(f.data, "eof", ShiftByte(f.StringShift),
                           f.MultiByteChars = 1, FALSE)]

(***************************************************************************)
(* SpecTwo: two parses of two files, their reads interleaved in every      *)
(* order.  A file stores its Locale with its own shift and unit width,     *)
(* whole or cut short by one byte.                                         *)
(***************************************************************************)
TwoFiles ==
    {[MultiByteChars |-> mb, StringShift |-> sh, units |-> u,
      data |-> LET all == StoredString(u, sh, mb = 1)
               IN  SubSeq(all, 1, Len(all) - cut)] :
        mb \in {0, 1}, sh \in {0, 2}, u \in {<<65>>, <<66, 67>>}, cut \in {0, 1}}

TwoInit ==
    /\ stack = <<>>
    /\ ParseIdle
    /\ sIn \in [1..2 -> TwoFiles]
    /\ sOut = [fn |-> "Load", at |-> [p \in 1..2 |-> "MultiByteChars"],
               readers |-> [p \in 1..2 |-> NewReader],
               PDO |-> [p \in 1..2 |-> Nil],
               steps |-> <<>>]

\* parse p reads MultiByteChars or StringShift and sets its Reader
TwoReadHeaderField ==
    \E p \in 1..2 :
        /\ \/ /\ sOut.at[p] = "MultiByteChars"
              /\ sOut' = [sOut EXCEPT
                     !.readers[ReaderOf(p)].MultiByteC = sIn[p].MultiByteChars = 1,
                     !.at[p] = "StringShift",
                     !.steps = Append(@, p)]
           \/ /\ sOut.at[p] = "StringShift"
              /\ sOut' = [sOut EXCEPT
                     !.readers[ReaderOf(p)].StringShift = ShiftByte(sIn[p].StringShift),
                     !.at[p] = "Locale",
                     !.steps = Append(@, p)]
        /\ UNCHANGED <<sIn, parseVars>>

\* parse p reads Locale with ReadShiftedString
TwoReadLocale ==
    \E p \in 1..2 :
        /\ sOut.at[p] = "Locale"
        /\ LET r == sOut.readers[ReaderOf(p)]
           IN  sOut' = [sOut EXCEPT
                   !.PDO[p] = [MultiByteChars |-> sIn[p].MultiByteChars,
                               StringShift |-> sIn[p].StringShift,
                               Locale |-> ReadString(sIn[p].data, "eof", r.StringShift,
                                                     r.MultiByteC, FALSE)],
                   !.at[p] = "done",
                   !.steps = Append(@, p)]
        /\ UNCHANGED <<sIn, parseVars>>

TwoNext == TwoReadHeaderField \/ TwoReadLocale

SpecTwo == TwoInit /\ [][TwoNext]_vars

(***************************************************************************)
(* Properties of two parses at once, checked under SpecTwo.                *)
(***************************************************************************)
\* C22: two parses of two byte sources do not interfere: in whatever order
\* their reads are interleaved, each parse ends with what it gives when it
\* runs alone, the same fields and the same string or the same error, also
\* when the two files differ in shift and in unit width
C22_ParsesDoNotInterfere ==
    Called("Load") =>
        \A p \in 1..2 : sOut.at[p] = "done" => sOut.PDO[p] = HeaderOf(sIn[p])

\* a single-byte file with shift 0 and a multi-byte file with shift 2, read
\* turn by turn, each decoded to its own string
C22_Witness ==
    /\ Called("Load")
    /\ sOut.steps = <<1, 2, 1, 2, 1, 2>>
    /\ sIn[1].MultiByteChars = 0 /\ sIn[1].StringShift = 0
    /\ sIn[2].MultiByteChars = 1 /\ sIn[2].StringShift = 2
    /\ sOut.PDO[1].Locale.err = "nil" /\ sOut.PDO[1].Locale.units = sIn[1].units
    /\ sOut.PDO[2].Locale.err = "nil" /\ sOut.PDO[2].Locale.units = sIn[2].units

(***************************************************************************)
(* generateMTL (pkg/export/obj.go): the material library of the OBJ        *)
(* export, the one place that decodes textures.  An entry of the library   *)
(* is the newmtl block of a material or its map_Kd line.                   *)
(***************************************************************************)
\* os.Create(mtlPath): the library is created, or generateMTL returns the
\* error
generateMTLOpen ==
    /\ sOut = NoOutput
    /\ \E created \in BOOLEAN :
          sOut' = [fn |-> "generateMTL", i |-> 0, entries |-> <<>>,
                   warnings |-> <<>>, files |-> <<>>,
                   state |-> IF created THEN "running" ELSE "returned",
                   err |-> IF created THEN NoError ELSE <<"create failed">>]
    /\ UNCHANGED <<sIn, parseVars>>

\* png.Encode refuses an image without pixels
EncodeFails(img) == DOMAIN img = {}

\* one round of `for i, mat := range p.Materials`, or the return after the
\* last material; texCreated is what os.Create(texPath) meets
generateMTLRound ==
    /\ Called("generateMTL")
    /\ sOut.state = "running"
    /\ IF sOut.i >= Len(sIn.p.Materials)
       THEN sOut' = [sOut EXCEPT !.state = "returned"]
       ELSE LET mat == sIn.p.Materials[sOut.i + 1]
                block == Append(sOut.entries, [newmtl |-> sOut.i])
                got == GetImage(mat.Texture)
            IN  IF ~mat.HasTexture
                THEN sOut' = [sOut EXCEPT !.i = @ + 1, !.entries = block]
                ELSE IF got.panicked
                THEN sOut' = [sOut EXCEPT !.entries = block, !.state = "panicked"]
                ELSE IF got.err # NoError
                THEN sOut' = [sOut EXCEPT
                                 !.i = @ + 1, !.entries = block,
                                 !.warnings = Append(@, [mat |-> sOut.i, err |-> got.err])]
                ELSE \E texCreated \in BOOLEAN :
                        IF ~texCreated
                        THEN sOut' = [sOut EXCEPT
                                 !.i = @ + 1, !.entries = block,
                                 !.warnings = Append(@, [mat |-> sOut.i,
                                                         err |-> <<"create failed">>])]
                        ELSE sOut' = [sOut EXCEPT
                                 !.i = @ + 1,
                                 !.entries = Append(block, [map_Kd |-> sOut.i]),
                                 !.files = Append(@, [mat |-> sOut.i, img |-> got.img]),
                                 !.warnings = IF EncodeFails(got.img)
                                              THEN Append(@, [mat |-> sOut.i,
                                                              err |-> <<"encode failed">>])
                                              ELSE @]
    /\ UNCHANGED <<sIn, parseVars>>

(***************************************************************************)
(* SpecMtl: generateMTL on the Materials of a parsed Model.  A material    *)
(* has no texture, or one whose three fields are whatever the file gave:   *)
(* a payload that is well formed, not a deflate stream at all or empty,    *)
(* under a width and a height of either sign.                              *)
(***************************************************************************)
\* ReadMaterial without a texture: DataSize 0, no RawData
NoTexture ==
    [Width |-> 0, Height |-> 0,
     RawData |-> [empty |-> TRUE, inflated |-> <<>>, end |-> "EOF"], DataHash |-> 0]

MtlTextures ==
    {[Width |-> w, Height |-> 1, RawData |-> raw, DataHash |-> 0] :
        w \in {-1, 0, 1},
        raw \in {[empty |-> FALSE, inflated |-> Counting(3), end |-> "EOF"],
                 [empty |-> FALSE, inflated |-> <<>>, end |-> "corrupt input"],
                 [empty |-> TRUE, inflated |-> <<>>, end |-> "EOF"]}}

MtlMaterials ==
    {[HasTexture |-> FALSE, Texture |-> NoTexture]}
    \cup {[HasTexture |-> TRUE, Texture |-> t] : t \in MtlTextures}

MtlInit ==
    /\ stack = <<>>
    /\ ParseIdle
    /\ sIn \in [p : [Materials : SeqsUpTo(MtlMaterials, MaxMaterials)]]
    /\ sOut = NoOutput

MtlNext == generateMTLOpen \/ generateMTLRound

SpecMtl == MtlInit /\ [][MtlNext]_vars

(***************************************************************************)
(* Properties of generateMTL, checked under SpecMtl.                       *)
(***************************************************************************)
\* C21: textures are decoded by the export only, and a texture that fails
\* to decode is a matter of that texture alone: generateMTL does not crash
\* and goes on with the remaining materials, so that when the library was
\* created every material has its newmtl block in the order of the Model,
\* and every texture that decodes and whose file is created has its image
\* written, the one GetImage gives for it alone
C21_DecodeFailureIsLocal ==
    Called("generateMTL") =>
        /\ sOut.state # "panicked"
        /\ sOut.state = "returned" /\ sOut.err = NoError =>
              LET blocks == SelectSeq(sOut.entries, LAMBDA e : "newmtl" \in DOMAIN e)
              IN  blocks = [k \in 1..Len(sIn.p.Materials) |-> [newmtl |-> k - 1]]
        /\ \A k \in 1..Len(sOut.files) :
              sOut.files[k].img =
                  GetImage(sIn.p.Materials[sOut.files[k].mat + 1].Texture).img

====
